---- MODULE Spec2Model ----
(***************************************************************************)
(* Deep Sanitizer: the AutoCodeSanitizer engine.                           *)
(*                                                                         *)
(* Two variants of the class are modelled:                                 *)
(*   - the tag/regex variant (string and comment masking, restoration by   *)
(*     _restoreByRegex), and                                               *)
(*   - the structural variant of src/sanitizer.ts (identifier masking      *)
(*     only, restoration by re-parsing in _applyRestoration).              *)
(*                                                                         *)
(* Text is a TLA+ string; offsets are the 0-based offsets of the code.     *)
(* The syntax tree that web-tree-sitter hands to the engine is the list of *)
(* nodes of the source (type, text, syntactic site); the text the engine   *)
(* receives is the concatenation of the nodes, and the node offsets are    *)
(* computed from it.                                                       *)
(***************************************************************************)
EXTENDS Integers, Sequences, FiniteSets, TLC

\* ---------------------------------------------------------------------------
\* Bounds of the model
\* ---------------------------------------------------------------------------
MaxNodes == 2

MaxTokens == 2

MaxEntries == 2

\* ---------------------------------------------------------------------------
\* JavaScript string primitives
\* ---------------------------------------------------------------------------
Min(a, b) == IF a < b THEN a ELSE b

Max(a, b) == IF a < b THEN b ELSE a

Clamp(n, len) == Max(0, Min(n, len))

\* s.substring(a, b): arguments clamped to [0, length], swapped when a > b.
Substring(s, a, b) ==
  LET ca == Clamp(a, Len(s))
      cb == Clamp(b, Len(s))
  IN  SubSeq(s, Min(ca, cb) + 1, Max(ca, cb))

\* s.substring(a)
SubstringFrom(s, a) == Substring(s, a, Len(s))

\* s[i], 0-based; "" outside the string
CharAt(s, i) == IF i >= 0 /\ i < Len(s) THEN SubSeq(s, i + 1, i + 1) ELSE ""

StartsWith(s, p) == Len(p) <= Len(s) /\ SubSeq(s, 1, Len(p)) = p

EndsWith(s, p) == Len(p) <= Len(s) /\ SubSeq(s, Len(s) - Len(p) + 1, Len(s)) = p

\* s.includes(p)
Includes(s, p) == \E i \in 0..(Len(s) - Len(p)) : SubSeq(s, i + 1, i + Len(p)) = p

UpperChars ==
  {"A","B","C","D","E","F","G","H","I","J","K","L","M",
   "N","O","P","Q","R","S","T","U","V","W","X","Y","Z"}

LowerChars ==
  {"a","b","c","d","e","f","g","h","i","j","k","l","m",
   "n","o","p","q","r","s","t","u","v","w","x","y","z"}

DigitChars == {"0","1","2","3","4","5","6","7","8","9"}

\* \w of a JavaScript regular expression
WordChars == UpperChars \cup LowerChars \cup DigitChars \cup {"_"}

LowerOf(c) ==
  CASE c = "A" -> "a" [] c = "B" -> "b" [] c = "C" -> "c" [] c = "D" -> "d"
    [] c = "E" -> "e" [] c = "F" -> "f" [] c = "G" -> "g" [] c = "H" -> "h"
    [] c = "I" -> "i" [] c = "J" -> "j" [] c = "K" -> "k" [] c = "L" -> "l"
    [] c = "M" -> "m" [] c = "N" -> "n" [] c = "O" -> "o" [] c = "P" -> "p"
    [] c = "Q" -> "q" [] c = "R" -> "r" [] c = "S" -> "s" [] c = "T" -> "t"
    [] c = "U" -> "u" [] c = "V" -> "v" [] c = "W" -> "w" [] c = "X" -> "x"
    [] c = "Y" -> "y" [] c = "Z" -> "z" [] OTHER -> c

RECURSIVE ToLowerCase(_)
ToLowerCase(s) ==
  IF s = "" THEN "" ELSE LowerOf(SubSeq(s, 1, 1)) \o ToLowerCase(SubSeq(s, 2, Len(s)))

DigitOf(d) ==
  CASE d = 0 -> "0" [] d = 1 -> "1" [] d = 2 -> "2" [] d = 3 -> "3" [] d = 4 -> "4"
    [] d = 5 -> "5" [] d = 6 -> "6" [] d = 7 -> "7" [] d = 8 -> "8" [] d = 9 -> "9"

\* ${n} in a template, for a non-negative integer
RECURSIVE NumToString(_)
NumToString(n) ==
  IF n < 10 THEN DigitOf(n) ELSE NumToString(n \div 10) \o DigitOf(n % 10)

\* ---------------------------------------------------------------------------
\* Map<string, string> in insertion order: a sequence of <<key, value>>
\* ---------------------------------------------------------------------------
EmptyMap == << >>

MapKeys(m) == {m[i][1] : i \in 1..Len(m)}

MapHas(m, k) == \E i \in 1..Len(m) : m[i][1] = k

MapGet(m, k) == m[CHOOSE i \in 1..Len(m) : m[i][1] = k][2]

\* Map.set: an existing key keeps its position
MapSet(m, k, v) ==
  IF MapHas(m, k)
  THEN [i \in 1..Len(m) |-> IF m[i][1] = k THEN <<k, v>> ELSE m[i]]
  ELSE Append(m, <<k, v>>)

\* typeCounters[key], undefined read as 0
CounterGet(c, k) == IF MapHas(c, k) THEN MapGet(c, k) ELSE 0

\* ---------------------------------------------------------------------------
\* Constants & configurations
\* ---------------------------------------------------------------------------
RESERVED_NAMES ==
  {"console", "window", "document", "process", "global", "Math", "JSON",
   "Object", "Array", "String", "Number", "Boolean", "Date", "Promise",
   "Error", "React", "useState", "useEffect", "useCallback", "useMemo",
   "useRef", "useContext", "module", "exports", "require", "import",
   "export", "from", "as", "any", "string", "number", "boolean", "void",
   "null", "undefined", "never", "unknown"}

\* QUERIES.typescript: the capture name the definition query gives to the name
\* node of each syntactic site, "" for a site the query does not match.
DefCaptureName(site) ==
  CASE site = "function_declaration" -> "def.func"
    [] site = "method_definition" -> "def.func"
    [] site = "class_declaration" -> "def.class"
    [] site = "interface_declaration" -> "def.type"
    [] site = "type_alias_declaration" -> "def.type"
    [] site = "enum_declaration" -> "def.type"
    [] site = "variable_declarator" -> "def.var"
    [] site = "required_parameter" -> "def.var"
    [] site = "optional_parameter" -> "def.var"
    [] OTHER -> ""

_getWasmFile(languageId) ==
  IF languageId = "python" THEN "tree-sitter-python.wasm"
  ELSE IF Includes(languageId, "react") THEN "tree-sitter-tsx.wasm"
  ELSE IF Includes(languageId, "typescript") \/ Includes(languageId, "javascript")
       THEN "tree-sitter-typescript.wasm"
  ELSE ""

\* ---------------------------------------------------------------------------
\* getReplacement: semantic prefix and numbering
\* ---------------------------------------------------------------------------
\* /(x|y|...)$/
MatchesSuffix(name, suffixes) == \E x \in suffixes : EndsWith(name, x)

\* /^(x|y|...)[A-Z]/
MatchesPrefixUpper(name, prefixes) ==
  \E p \in prefixes : StartsWith(name, p) /\ CharAt(name, Len(p)) \in UpperChars

BasePrefix(typeTag) ==
  IF Includes(typeTag, "func") THEN "ACTION"
  ELSE IF Includes(typeTag, "class") THEN "CLASS"
  ELSE IF Includes(typeTag, "type") THEN "TYPE"
  ELSE "VAR"

HookRule(originalName) == StartsWith(originalName, "use") /\ Len(originalName) > 3

PrefixFor(originalName, typeTag) ==
  LET prefix == BasePrefix(typeTag) IN
  IF MatchesSuffix(originalName, {"List", "Array", "Items", "Collection", "s"})
       /\ ~EndsWith(originalName, "ss")
  THEN "LIST_" \o prefix
  ELSE IF MatchesPrefixUpper(originalName, {"is", "has", "can", "should", "did", "will"})
  THEN "BOOL"
  ELSE IF MatchesSuffix(originalName,
            {"Name", "Title", "Text", "String", "Str", "Label", "Message", "Msg"})
  THEN "STR"
  ELSE IF MatchesSuffix(originalName,
            {"Count", "Index", "Idx", "Num", "Size", "Length", "Amount", "Price", "Total"})
  THEN "NUM"
  ELSE IF MatchesSuffix(originalName, {"Id", "Key", "Code", "Uuid"})
  THEN "ID"
  ELSE IF MatchesPrefixUpper(originalName, {"on", "handle"})
  THEN "HANDLER"
  ELSE IF HookRule(originalName)
  THEN "HOOK"
  ELSE IF EndsWith(originalName, "Props") \/ originalName = "props"
  THEN "PROPS"
  ELSE prefix

\* The tables of one engine: mapForward, mapBackward, typeCounters
EmptyTables == [fwd |-> EmptyMap, bwd |-> EmptyMap, cnt |-> EmptyMap]

\* Mutant of getReplacement: the name is built from the counter key, which is
\* the prefix in lower case
getReplacementFromKey(t, originalName, typeTag) ==
  IF MapHas(t.fwd, originalName) THEN t
  ELSE
    LET prefix == PrefixFor(originalName, typeTag)
        key == ToLowerCase(prefix)
        n == CounterGet(t.cnt, key) + 1
        maskedName == key \o "_" \o NumToString(n)
    IN  [fwd |-> MapSet(t.fwd, originalName, maskedName),
         bwd |-> MapSet(t.bwd, maskedName, originalName),
         cnt |-> MapSet(t.cnt, key, n)]

\* Mutant of getReplacement: one counter for all prefixes
getReplacementOneCounter(t, originalName, typeTag) ==
  IF MapHas(t.fwd, originalName) THEN t
  ELSE
    LET prefix == PrefixFor(originalName, typeTag)
        key == "all"
        n == CounterGet(t.cnt, key) + 1
        maskedName == prefix \o "_" \o NumToString(n)
    IN  [fwd |-> MapSet(t.fwd, originalName, maskedName),
         bwd |-> MapSet(t.bwd, maskedName, originalName),
         cnt |-> MapSet(t.cnt, key, n)]

\* getReplacement(originalName, typeTag): the tables after the call
getReplacement(t, originalName, typeTag) ==
  IF MapHas(t.fwd, originalName) THEN t
  ELSE
    LET prefix == PrefixFor(originalName, typeTag)
        key == ToLowerCase(prefix)
        n == CounterGet(t.cnt, key) + 1
        maskedName == prefix \o "_" \o NumToString(n)
    IN  [fwd |-> MapSet(t.fwd, originalName, maskedName),
         bwd |-> MapSet(t.bwd, maskedName, originalName),
         cnt |-> MapSet(t.cnt, key, n)]

\* ---------------------------------------------------------------------------
\* The syntax tree of a source: its nodes in document order
\* ---------------------------------------------------------------------------
\* A node: its tree-sitter type, its text, the type of its parent (the
\* syntactic site it stands at) and, for a template string, the identifier
\* nodes of its substitutions as <<offset in the node, text>>.
Node(type, text, site, inner) ==
  [type |-> type, text |-> text, site |-> site, inner |-> inner]

IdentNode(type, text, site) == Node(type, text, site, << >>)

StringNode(text, site) == Node("string", text, site, << >>)

CommentNode(text) == Node("comment", text, "program", << >>)

OtherNode(text) == Node("other", text, "program", << >>)

\* The delimiter of a template string (U+0060 cannot be written in a TLA+
\* string; the engine never inspects the character)
BackTick == "~"

\* A template string with one substitution: pre${name}post between back ticks
TemplateNode(pre, name, post) ==
  Node("template_string",
       BackTick \o pre \o "${" \o name \o "}" \o post \o BackTick,
       "variable_declarator", << <<Len(pre) + 3, name>> >>)

IdentTypes ==
  {"identifier", "type_identifier", "property_identifier",
   "shorthand_property_identifier_pattern"}

Separator == "\n"

\* startIndex of node i in the text of the source
RECURSIVE StartIndex(_, _)
StartIndex(nodes, i) ==
  IF i = 1 THEN 0
  ELSE StartIndex(nodes, i - 1) + Len(nodes[i - 1].text) + Len(Separator)

\* The text the tree was parsed from
RECURSIVE CodeOf(_)
CodeOf(nodes) ==
  IF nodes = << >> THEN ""
  ELSE IF Len(nodes) = 1 THEN nodes[1].text
  ELSE nodes[1].text \o Separator \o CodeOf(Tail(nodes))

\* One capture of a query: capture name and node
Capture(name, text, startIndex, parentType) ==
  [name |-> name, text |-> text, startIndex |-> startIndex,
   endIndex |-> startIndex + Len(text), parentType |-> parentType]

\* defQuery.matches(tree.rootNode): the definition captures in document order
RECURSIVE DefCaptures(_, _)
DefCaptures(nodes, i) ==
  IF i > Len(nodes) THEN << >>
  ELSE
    LET n == nodes[i]
        here == IF n.type \in IdentTypes /\ DefCaptureName(n.site) # ""
                THEN << Capture(DefCaptureName(n.site), n.text,
                                StartIndex(nodes, i), n.site) >>
                ELSE << >>
    IN  here \o DefCaptures(nodes, i + 1)

\* The node types the replacement query of the tag variant captures
ReplaceQueryTypes(langId, options) ==
  IdentTypes
    \cup (IF options.removeComments THEN {"comment"} ELSE {})
    \cup (IF options.maskStrings THEN {"string"} ELSE {})
    \cup (IF options.maskStrings
             /\ (Includes(langId, "typescript") \/ Includes(langId, "javascript")
                 \/ Includes(langId, "react"))
          THEN {"template_string"} ELSE {})

CaptureNameOf(type) ==
  IF type = "comment" THEN "cmt"
  ELSE IF type \in {"string", "template_string"} THEN "str"
  ELSE "ident"

\* The identifier nodes inside the substitutions of a template string
InnerCaptures(n, start) ==
  [k \in 1..Len(n.inner) |->
     Capture("ident", n.inner[k][2], start + n.inner[k][1], "template_substitution")]

\* replaceQuery.captures(tree.rootNode) for a query over the given node types
RECURSIVE ReplaceCaptures(_, _, _)
ReplaceCaptures(nodes, i, types) ==
  IF i > Len(nodes) THEN << >>
  ELSE
    LET n == nodes[i]
        start == StartIndex(nodes, i)
        here == IF n.type \in types
                THEN << Capture(CaptureNameOf(n.type), n.text, start, n.site) >>
                ELSE << >>
    IN  here \o InnerCaptures(n, start) \o ReplaceCaptures(nodes, i + 1, types)

\* Insert c into a sequence sorted by descending startIndex, after its equals
RECURSIVE InsertDesc(_, _)
InsertDesc(sorted, c) ==
  IF sorted = << >> THEN << c >>
  ELSE IF Head(sorted).startIndex >= c.startIndex
       THEN << Head(sorted) >> \o InsertDesc(Tail(sorted), c)
       ELSE << c >> \o sorted

\* captures.sort((a, b) => b.node.startIndex - a.node.startIndex)
RECURSIVE SortDesc(_)
SortDesc(caps) ==
  IF caps = << >> THEN << >>
  ELSE InsertDesc(SortDesc(SubSeq(caps, 1, Len(caps) - 1)), caps[Len(caps)])

\* text.substring(0, start) + replacement + text.substring(end)
Splice(text, start, end, replacement) ==
  Substring(text, 0, start) \o replacement \o SubstringFrom(text, end)

\* ---------------------------------------------------------------------------
\* sanitize (tag/regex variant)
\* ---------------------------------------------------------------------------
\* options.whitelist is modelled as the set of its words ({} when absent);
\* every whitelistMode other than "overwrite" appends to the defaults.
ActiveReserved(options) ==
  IF options.whitelistMode = "overwrite" THEN options.whitelist
  ELSE RESERVED_NAMES \cup options.whitelist

\* Mutant of Qualifies: the reserved set is not consulted
QualifiesIgnoringReserved(c, options, reserved) ==
  /\ ~(Includes(c.name, "var") /\ ~options.maskVars)
  /\ ~(Includes(c.name, "func") /\ ~options.maskFuncs)
  /\ ~((Includes(c.name, "class") \/ Includes(c.name, "type")) /\ ~options.maskClasses)
  /\ ~(Len(c.text) < 2)
  /\ ~StartsWith(c.text, "_")

\* Mutant of Qualifies: names behind an underscore are let through
QualifiesUnderscore(c, options, reserved) ==
  /\ ~(Includes(c.name, "var") /\ ~options.maskVars)
  /\ ~(Includes(c.name, "func") /\ ~options.maskFuncs)
  /\ ~((Includes(c.name, "class") \/ Includes(c.name, "type")) /\ ~options.maskClasses)
  /\ ~(Len(c.text) < 2)
  /\ c.text \notin reserved

\* Mutant of Qualifies: names of one character are let through
QualifiesAnyLength(c, options, reserved) ==
  /\ ~(Includes(c.name, "var") /\ ~options.maskVars)
  /\ ~(Includes(c.name, "func") /\ ~options.maskFuncs)
  /\ ~((Includes(c.name, "class") \/ Includes(c.name, "type")) /\ ~options.maskClasses)
  /\ ~StartsWith(c.text, "_")
  /\ c.text \notin reserved

\* Mutant of Qualifies: the category options are not consulted
QualifiesIgnoringCategory(c, options, reserved) ==
  /\ ~(Len(c.text) < 2)
  /\ ~StartsWith(c.text, "_")
  /\ c.text \notin reserved

\* The option filter and the exclusions of one definition capture
Qualifies(c, options, reserved) ==
  /\ ~(Includes(c.name, "var") /\ ~options.maskVars)
  /\ ~(Includes(c.name, "func") /\ ~options.maskFuncs)
  /\ ~((Includes(c.name, "class") \/ Includes(c.name, "type")) /\ ~options.maskClasses)
  /\ ~(Len(c.text) < 2)
  /\ ~StartsWith(c.text, "_")
  /\ c.text \notin reserved

\* Pass 1: the loop over the definition captures
RECURSIVE CollectDefinitions(_, _, _, _)
CollectDefinitions(t, caps, options, reserved) ==
  IF caps = << >> THEN t
  ELSE
    LET c == Head(caps)
        t2 == IF Qualifies(c, options, reserved) /\ ~MapHas(t.fwd, c.text)
              THEN getReplacement(t, c.text, c.name)
              ELSE t
    IN  CollectDefinitions(t2, Tail(caps), options, reserved)

\* The comment branch of the replacement loop
ReplaceComment(st, c) ==
  LET n == CounterGet(st.t.cnt, "CMT") + 1
      tag == "[[CMT_" \o NumToString(n) \o "]]"
      text == c.text
      stored == IF StartsWith(text, "//") THEN SubstringFrom(text, 2)
                ELSE IF StartsWith(text, "/**") THEN Substring(text, 3, Len(text) - 2)
                ELSE IF StartsWith(text, "/*") THEN Substring(text, 2, Len(text) - 2)
                ELSE text
      replacement == IF StartsWith(text, "//") THEN "//" \o tag
                     ELSE IF StartsWith(text, "/**") THEN "/**" \o tag \o "*/"
                     ELSE IF StartsWith(text, "/*") THEN "/*" \o tag \o "*/"
                     ELSE tag
  IN  [text |-> Splice(st.text, c.startIndex, c.endIndex, replacement),
       t |-> [st.t EXCEPT !.bwd = MapSet(@, tag, stored),
                          !.cnt = MapSet(@, "CMT", n)]]

\* Mutant of ReplaceString: a literal already in the forward table is not
\* looked up, every occurrence mints a new tag
ReplaceStringNoReuse(st, c) ==
  IF c.parentType \in {"import_statement", "export_statement"} THEN st
  ELSE
    LET n == CounterGet(st.t.cnt, "STR") + 1
        rawContent == "[[STR_" \o NumToString(n) \o "]]"
        maskedToken == "\"" \o rawContent \o "\""
    IN  [text |-> Splice(st.text, c.startIndex, c.endIndex, maskedToken),
         t |-> [st.t EXCEPT !.fwd = MapSet(@, c.text, maskedToken),
                            !.bwd = MapSet(@, rawContent, c.text),
                            !.cnt = MapSet(@, "STR", n)]]

\* The string branch of the replacement loop
ReplaceString(st, c) ==
  IF c.parentType \in {"import_statement", "export_statement"} THEN st
  ELSE IF MapHas(st.t.fwd, c.text)
  THEN [st EXCEPT !.text = Splice(@, c.startIndex, c.endIndex, MapGet(st.t.fwd, c.text))]
  ELSE
    LET n == CounterGet(st.t.cnt, "STR") + 1
        rawContent == "[[STR_" \o NumToString(n) \o "]]"
        maskedToken == "\"" \o rawContent \o "\""
    IN  [text |-> Splice(st.text, c.startIndex, c.endIndex, maskedToken),
         t |-> [st.t EXCEPT !.fwd = MapSet(@, c.text, maskedToken),
                            !.bwd = MapSet(@, rawContent, c.text),
                            !.cnt = MapSet(@, "STR", n)]]

\* The identifier branch of the replacement loop
ReplaceIdentifier(st, c) ==
  IF MapHas(st.t.fwd, c.text)
  THEN [st EXCEPT !.text = Splice(@, c.startIndex, c.endIndex, MapGet(st.t.fwd, c.text))]
  ELSE st

ReplaceStep(st, c) ==
  IF c.name = "cmt" THEN ReplaceComment(st, c)
  ELSE IF c.name = "str" THEN ReplaceString(st, c)
  ELSE ReplaceIdentifier(st, c)

\* Pass 2: the loop over the sorted captures; st = [text, t]
RECURSIVE ReplaceLoop(_, _)
ReplaceLoop(st, caps) ==
  IF caps = << >> THEN st
  ELSE ReplaceLoop(ReplaceStep(st, Head(caps)), Tail(caps))

\* sanitize(code, langId, options) of the tag variant, after the reset of the
\* tables, for the tree `nodes` of the code: the result and the tables left
\* in the engine.
Sanitize(nodes, langId, options) ==
  LET code == CodeOf(nodes) IN
  IF _getWasmFile(langId) = ""
  THEN [sanitized |-> code, mapping |-> EmptyMap, t |-> EmptyTables]
  ELSE
    LET t1 == CollectDefinitions(EmptyTables, DefCaptures(nodes, 1), options,
                                 ActiveReserved(options))
        caps == SortDesc(ReplaceCaptures(nodes, 1, ReplaceQueryTypes(langId, options)))
        st == ReplaceLoop([text |-> code, t |-> t1], caps)
    IN  [sanitized |-> st.text, mapping |-> st.t.bwd, t |-> st.t]

\* ---------------------------------------------------------------------------
\* sanitize (structural variant, src/sanitizer.ts)
\* ---------------------------------------------------------------------------
StructuralOptions(options) ==
  [options EXCEPT !.maskStrings = FALSE, !.removeComments = FALSE,
                  !.whitelist = {}, !.whitelistMode = "append"]

RECURSIVE ReplaceLoopStructural(_, _)
ReplaceLoopStructural(st, caps) ==
  IF caps = << >> THEN st
  ELSE ReplaceLoopStructural(ReplaceIdentifier(st, Head(caps)), Tail(caps))

SanitizeStructural(nodes, langId, options) ==
  LET code == CodeOf(nodes) IN
  IF _getWasmFile(langId) = ""
  THEN [sanitized |-> code, mapping |-> EmptyMap, t |-> EmptyTables]
  ELSE
    LET t1 == CollectDefinitions(EmptyTables, DefCaptures(nodes, 1), options,
                                 RESERVED_NAMES)
        caps == SortDesc(ReplaceCaptures(nodes, 1, IdentTypes))
        st == ReplaceLoopStructural([text |-> code, t |-> t1], caps)
    IN  [sanitized |-> st.text, mapping |-> st.t.bwd, t |-> st.t]

\* ---------------------------------------------------------------------------
\* _restoreByRegex (tag/regex variant)
\* ---------------------------------------------------------------------------
\* Number of digits at offset i
RECURSIVE DigitsRun(_, _)
DigitsRun(s, i) == IF CharAt(s, i) \in DigitChars THEN 1 + DigitsRun(s, i + 1) ELSE 0

\* Length of the match of /\[\[KIND_\d+\]\]/ that starts at offset i, 0 if none
TagMatchLen(s, i, kind) ==
  LET open == "[[" \o kind \o "_"
      d == DigitsRun(s, i + Len(open))
      close == i + Len(open) + d
  IN  IF Substring(s, i, i + Len(open)) = open /\ d > 0
         /\ Substring(s, close, close + 2) = "]]"
      THEN Len(open) + d + 2
      ELSE 0

\* Mutant of StringReplacer: the stored literal is inserted with its quotes
StringReplacerKeepingQuotes(mapTable, match) ==
  IF MapHas(mapTable, match) THEN MapGet(mapTable, match) ELSE match

\* The replacer of the string step
StringReplacer(mapTable, match) ==
  IF MapHas(mapTable, match)
  THEN LET originalWithQuotes == MapGet(mapTable, match)
       IN  Substring(originalWithQuotes, 1, Len(originalWithQuotes) - 1)
  ELSE match

\* The replacer of the comment step
CommentReplacer(mapTable, match) ==
  IF MapHas(mapTable, match) THEN MapGet(mapTable, match) ELSE match

Replacer(kind, mapTable, match) ==
  IF kind = "STR" THEN StringReplacer(mapTable, match)
  ELSE CommentReplacer(mapTable, match)

\* code.replace(/\[\[KIND_\d+\]\]/g, replacer), scanning from offset i
RECURSIVE ReplaceTags(_, _, _, _)
ReplaceTags(s, i, kind, mapTable) ==
  IF i >= Len(s) THEN ""
  ELSE
    LET l == TagMatchLen(s, i, kind) IN
    IF l > 0
    THEN Replacer(kind, mapTable, Substring(s, i, i + l))
           \o ReplaceTags(s, i + l, kind, mapTable)
    ELSE CharAt(s, i) \o ReplaceTags(s, i + 1, kind, mapTable)

\* Mutant of WordBoundary: the pattern is not delimited by \b
WordBoundaryAnywhere(s, i) == TRUE

\* \b at offset i
WordBoundary(s, i) == (CharAt(s, i - 1) \in WordChars) # (CharAt(s, i) \in WordChars)

\* code.replace(new RegExp(`\\b${maskedName}\\b`, "g"), originalName),
\* scanning from offset i (names without regex or replacement metacharacters)
RECURSIVE ReplaceWord(_, _, _, _)
ReplaceWord(s, i, maskedName, originalName) ==
  IF i >= Len(s) THEN ""
  ELSE IF Substring(s, i, i + Len(maskedName)) = maskedName
          /\ WordBoundary(s, i) /\ WordBoundary(s, i + Len(maskedName))
  THEN originalName \o ReplaceWord(s, i + Len(maskedName), maskedName, originalName)
  ELSE CharAt(s, i) \o ReplaceWord(s, i + 1, maskedName, originalName)

\* The keys the identifier step passes over
SkippedKey(maskedName) == StartsWith(maskedName, "STR") \/ StartsWith(maskedName, "[[")

\* mapTable.forEach of the identifier step, from entry k on
RECURSIVE RestoreIdentifiers(_, _, _)
RestoreIdentifiers(s, mapTable, k) ==
  IF k > Len(mapTable) THEN s
  ELSE IF SkippedKey(mapTable[k][1]) THEN RestoreIdentifiers(s, mapTable, k + 1)
  ELSE RestoreIdentifiers(ReplaceWord(s, 0, mapTable[k][1], mapTable[k][2]),
                          mapTable, k + 1)

RestoreStrings(code, mapTable) == ReplaceTags(code, 0, "STR", mapTable)

RestoreComments(code, mapTable) == ReplaceTags(code, 0, "CMT", mapTable)

_restoreByRegex(code, mapTable) ==
  RestoreIdentifiers(RestoreComments(RestoreStrings(code, mapTable), mapTable),
                     mapTable, 1)

\* ---------------------------------------------------------------------------
\* _applyRestoration (structural variant)
\* ---------------------------------------------------------------------------
Keywords == {"let", "function", "class", "import", "from", "return"}

\* Offset just after the run of word characters that starts at i
RECURSIVE WordEnd(_, _)
WordEnd(s, i) == IF CharAt(s, i) \in WordChars THEN WordEnd(s, i + 1) ELSE i

\* Offset just after the first occurrence of `close` at or after i
RECURSIVE EndAfter(_, _, _)
EndAfter(s, i, close) ==
  IF i >= Len(s) THEN Len(s)
  ELSE IF Substring(s, i, i + Len(close)) = close THEN i + Len(close)
  ELSE EndAfter(s, i + 1, close)

\* parser.parse(code) followed by the identifier query: the identifier-class
\* nodes of the text between offsets i and e, in document order.  Keywords,
\* numbers and the contents of comments and string literals are no identifier
\* nodes; the substitutions of a template string are parsed as code.
RECURSIVE IdentifierCaptures(_, _, _, _)
IdentifierCaptures(s, i, e, inTemplate) ==
  IF i >= e THEN << >>
  ELSE
    LET ch == CharAt(s, i) IN
    IF inTemplate
    THEN IF ch = BackTick THEN IdentifierCaptures(s, i + 1, e, FALSE)
         ELSE IF Substring(s, i, i + 2) = "${"
         THEN LET close == EndAfter(s, i + 2, "}")
              IN  IdentifierCaptures(s, i + 2, close, FALSE)
                    \o IdentifierCaptures(s, close, e, TRUE)
         ELSE IdentifierCaptures(s, i + 1, e, TRUE)
    ELSE IF ch = BackTick THEN IdentifierCaptures(s, i + 1, e, TRUE)
    ELSE IF ch \in {"\"", "'"} THEN IdentifierCaptures(s, EndAfter(s, i + 1, ch), e, FALSE)
    ELSE IF Substring(s, i, i + 2) = "//"
    THEN IdentifierCaptures(s, EndAfter(s, i + 2, "\n"), e, FALSE)
    ELSE IF Substring(s, i, i + 2) = "/*"
    THEN IdentifierCaptures(s, EndAfter(s, i + 2, "*/"), e, FALSE)
    ELSE IF ch \in WordChars
    THEN LET we == WordEnd(s, i)
             w == Substring(s, i, we)
         IN  IF ch \in DigitChars \/ w \in Keywords
             THEN IdentifierCaptures(s, we, e, FALSE)
             ELSE << Capture("ident", w, i, "") >> \o IdentifierCaptures(s, we, e, FALSE)
    ELSE IdentifierCaptures(s, i + 1, e, FALSE)

\* The restoration loop over the sorted captures
RECURSIVE RestoreLoop(_, _, _)
RestoreLoop(restoredCode, caps, mapTable) ==
  IF caps = << >> THEN restoredCode
  ELSE
    LET c == Head(caps) IN
    RestoreLoop(IF MapHas(mapTable, c.text)
                THEN Splice(restoredCode, c.startIndex, c.endIndex, MapGet(mapTable, c.text))
                ELSE restoredCode,
                Tail(caps), mapTable)

_applyRestoration(code, languageId, mapTable) ==
  RestoreLoop(code, SortDesc(IdentifierCaptures(code, 0, Len(code), FALSE)), mapTable)

\* ---------------------------------------------------------------------------
\* restoreWithMap
\* ---------------------------------------------------------------------------
\* restoreWithMap(code, mapping, langId) of the tag variant
restoreWithMap(code, mapping, langId) == _restoreByRegex(code, mapping)

\* restoreWithMap(code, mapping, langId) of the structural variant
restoreWithMapStructural(code, mapping, langId) == _applyRestoration(code, langId, mapping)

\* ---------------------------------------------------------------------------
\* Inputs
\* ---------------------------------------------------------------------------
\* The nodes sources are built from
SourceNodes ==
  { IdentNode("identifier", "abcdef", "variable_declarator"),
    IdentNode("identifier", "Msg", "function_declaration"),
    IdentNode("type_identifier", "Abc", "class_declaration"),
    IdentNode("identifier", "as", "variable_declarator"),
    IdentNode("identifier", "abcdef", "call_expression"),
    IdentNode("property_identifier", "abcdef", "member_expression"),
    IdentNode("identifier", "VAR_1", "import_specifier"),
    StringNode("'hi'", "variable_declarator"),
    StringNode("'hi'", "import_statement"),
    CommentNode("//abcdef"),
    TemplateNode("", "abcdef", "") }

\* Sequences of at most n elements of S
RECURSIVE SeqsUpTo(_, _)
SeqsUpTo(S, n) ==
  IF n = 0 THEN { << >> }
  ELSE LET shorter == SeqsUpTo(S, n - 1)
       IN  shorter \cup { Append(q, x) : q \in shorter, x \in S }

Sources == SeqsUpTo(SourceNodes, MaxNodes)

\* <<whitelistMode, whitelist>>; "" is an absent whitelistMode
WhitelistChoices ==
  { <<"", {}>>, <<"append", {"abcdef", "STR_1"}>>,
    <<"overwrite", {"abcdef", "STR_1"}>>, <<"overwrite", {}>> }

OptionSets ==
  { [maskVars |-> v, maskFuncs |-> f, maskClasses |-> c, maskStrings |-> ms,
     removeComments |-> rc, whitelist |-> w[2], whitelistMode |-> w[1]] :
      v \in BOOLEAN, f \in BOOLEAN, c \in BOOLEAN, ms \in BOOLEAN,
      rc \in BOOLEAN, w \in WhitelistChoices }

LangIds == {"typescript"}

NoOptions ==
  [maskVars |-> FALSE, maskFuncs |-> FALSE, maskClasses |-> FALSE,
   maskStrings |-> FALSE, removeComments |-> FALSE, whitelist |-> {},
   whitelistMode |-> ""]

\* ---------------------------------------------------------------------------
\* State
\* ---------------------------------------------------------------------------
VARIABLES
  variant,       \* which AutoCodeSanitizer class the engine is: "tag" | "structural"
  parser,        \* this.parser: "null" | "ready"
  parserLanguage, \* the grammar set on this.parser by setLanguage, "" for none
  mapForward,    \* this.mapForward
  mapBackward,   \* this.mapBackward
  typeCounters,  \* this.typeCounters
  pc,            \* the caller: "idle" | "sanitized" | "restored"
  tree,          \* the syntax tree of the document given to sanitize
  langId,        \* the languageId of the document
  options,       \* the options given to sanitize
  sanitized,     \* the text the caller holds after sanitize
  mapping,       \* the mapping the caller holds after sanitize
  restored,      \* the text returned by restoreWithMap / restore
  calls,         \* the calls in flight on the engine, by call id
  callerMap      \* the Map object the caller passed to restoreWithMap last

vars ==
  <<variant, parser, parserLanguage, mapForward, mapBackward, typeCounters, pc, tree, langId,
    options, sanitized, mapping, restored, calls, callerMap>>

callerVars == <<tree, langId, options, sanitized, mapping, calls, callerMap>>

\* The grammar _applyRestoration loads for a languageId (src/src/sanitizer.ts:303-304)
RestorationWasmFile(languageId) ==
  IF _getWasmFile(languageId) = "" THEN "tree-sitter-typescript.wasm"
  ELSE _getWasmFile(languageId)

\* The ids of the calls that can be in flight together
Calls == {1, 2}

\* The mapping argument of restoreWithMap: kind is "string" (text holds the
\* JSON text), "object" or "map" (entries holds the entries in order), or
\* "this" when restore passes this.mapBackward itself
MappingArg(kind, text, entries) == [kind |-> kind, text |-> text, entries |-> entries]

NoMappingArg == MappingArg("object", "", EmptyMap)

\* A call that has not started.  pc is where the call stands: "idle", "init"
\* (awaiting this.init()), "load" (awaiting Language.load) or "done"; failure
\* is what the environment made fail in the call ("" for nothing); outcome is
\* "resolved" or "rejected" once the promise of the call is settled; grammar
\* is the grammar the shared parser held when the call parsed its text.
IdleCall ==
  [pc |-> "idle", op |-> "", tree |-> << >>, langId |-> "", options |-> NoOptions,
   code |-> "", arg |-> NoMappingArg, failure |-> "", outcome |-> "",
   sanitized |-> "", mapping |-> EmptyMap, restored |-> "", error |-> "",
   grammar |-> ""]

\* The Map object of the caller: held is TRUE once a Map was passed, passed
\* holds its entries at the call, shared is TRUE while this.mapBackward refers
\* to the same object, entries holds its entries since it is no longer shared
NoCallerMap == [held |-> FALSE, passed |-> EmptyMap, entries |-> EmptyMap, shared |-> FALSE]

\* The entries the Map object of the caller holds now
CallerMapEntries == IF callerMap.shared THEN mapBackward ELSE callerMap.entries

\* The Map object of the caller after `this.mapBackward = restorationMap`
\* (src/unnamed/part_000:527-534): a Map argument becomes the table of the
\* engine itself, every other argument gives the engine a new Map
AfterAssignment(arg) ==
  IF arg.kind = "this" THEN callerMap
  ELSE IF arg.kind = "map"
  THEN [held |-> TRUE, passed |-> arg.entries, entries |-> arg.entries, shared |-> TRUE]
  ELSE [callerMap EXCEPT !.entries = CallerMapEntries, !.shared = FALSE]

InitEngine(v) ==
  /\ variant = v
  /\ parser = "null"
  /\ parserLanguage = ""
  /\ mapForward = EmptyMap
  /\ mapBackward = EmptyMap
  /\ typeCounters = EmptyMap

InitCaller ==
  /\ pc = "idle"
  /\ tree = << >>
  /\ langId = "typescript"
  /\ options = NoOptions
  /\ sanitized = ""
  /\ mapping = EmptyMap
  /\ restored = ""
  /\ calls = [c \in Calls |-> IdleCall]
  /\ callerMap = NoCallerMap

Init == InitEngine("tag") /\ InitCaller

\* ---------------------------------------------------------------------------
\* Actions
\* ---------------------------------------------------------------------------
\* The engine state and the result of one sanitize call
ApplySanitize(r, nodes, lang, opts) ==
  /\ parser' = "ready"
  /\ parserLanguage' = IF _getWasmFile(lang) = "" THEN parserLanguage
                       ELSE _getWasmFile(lang)
  /\ mapForward' = r.t.fwd
  /\ mapBackward' = r.t.bwd
  /\ typeCounters' = r.t.cnt
  /\ pc' = "sanitized"
  /\ tree' = nodes
  /\ langId' = lang
  /\ options' = opts
  /\ sanitized' = r.sanitized
  /\ mapping' = r.mapping
  /\ UNCHANGED <<variant, restored, calls, callerMap>>

\* await sanitizer.sanitize(text, langId, options) on a document
SanitizeCall ==
  /\ variant = "tag"
  /\ pc = "idle"
  /\ \E nodes \in Sources, lang \in LangIds, opts \in OptionSets :
       ApplySanitize(Sanitize(nodes, lang, opts), nodes, lang, opts)

\* await sanitizer.restoreWithMap(code, mapping, langId) on what the caller holds
RestoreWithMapCall ==
  /\ variant = "tag"
  /\ pc = "sanitized"
  /\ mapBackward' = mapping
  /\ restored' = restoreWithMap(sanitized, mapping, langId)
  /\ pc' = "restored"
  /\ UNCHANGED <<variant, parser, parserLanguage, mapForward, typeCounters, callerVars>>

\* await sanitizer.restore(code, langId): restoreWithMap with this.mapBackward
RestoreCall ==
  /\ variant = "tag"
  /\ pc = "sanitized"
  /\ mapBackward' = mapBackward
  /\ restored' = restoreWithMap(sanitized, mapBackward, langId)
  /\ pc' = "restored"
  /\ UNCHANGED <<variant, parser, parserLanguage, mapForward, typeCounters, callerVars>>

Next == SanitizeCall \/ RestoreWithMapCall \/ RestoreCall

Spec == Init /\ [][Next]_vars

\* ---------------------------------------------------------------------------
\* The structural variant (src/sanitizer.ts)
\* ---------------------------------------------------------------------------
StructuralNodes == SourceNodes \cup { OtherNode("let"), OtherNode("42") }

StructuralSources == SeqsUpTo(StructuralNodes, MaxNodes)

StructuralOptionSets ==
  { [NoOptions EXCEPT !.maskVars = v, !.maskFuncs = f, !.maskClasses = c] :
      v \in BOOLEAN, f \in BOOLEAN, c \in BOOLEAN }

InitStructural == InitEngine("structural") /\ InitCaller

SanitizeStructuralCall ==
  /\ variant = "structural"
  /\ pc = "idle"
  /\ \E nodes \in StructuralSources, lang \in LangIds, opts \in StructuralOptionSets :
       ApplySanitize(SanitizeStructural(nodes, lang, opts), nodes, lang, opts)

RestoreWithMapStructuralCall ==
  /\ variant = "structural"
  /\ pc = "sanitized"
  /\ parser' = "ready"
  /\ parserLanguage' = RestorationWasmFile(langId)
  /\ mapBackward' = mapping
  /\ restored' = restoreWithMapStructural(sanitized, mapping, langId)
  /\ pc' = "restored"
  /\ UNCHANGED <<variant, mapForward, typeCounters, callerVars>>

RestoreStructuralCall ==
  /\ variant = "structural"
  /\ pc = "sanitized"
  /\ parser' = "ready"
  /\ parserLanguage' = RestorationWasmFile(langId)
  /\ mapBackward' = mapBackward
  /\ restored' = restoreWithMapStructural(sanitized, mapBackward, langId)
  /\ pc' = "restored"
  /\ UNCHANGED <<variant, mapForward, typeCounters, callerVars>>

NextStructural ==
  SanitizeStructuralCall \/ RestoreWithMapStructuralCall \/ RestoreStructuralCall

SpecStructural == InitStructural /\ [][NextStructural]_vars

\* ---------------------------------------------------------------------------
\* Restoration of a text the caller brings (an edited answer and a saved
\* mapping), on a fresh engine of either variant
\* ---------------------------------------------------------------------------
RestoreTokens ==
  { "VAR_1", "VAR_12", "STR_1", "\"[[STR_1]]\"", "'[[STR_1]]'",
    "[[STR_1]]", "[[STR_2]]", "'[[STR_7]]'", "//[[CMT_1]]", "/*[[CMT_7]]*/" }

RECURSIVE JoinLines(_)
JoinLines(tokens) ==
  IF tokens = << >> THEN ""
  ELSE IF Len(tokens) = 1 THEN tokens[1]
  ELSE tokens[1] \o Separator \o JoinLines(Tail(tokens))

RestoreTexts == { JoinLines(q) : q \in SeqsUpTo(RestoreTokens, MaxTokens) }

RestoreEntries ==
  { <<"VAR_1", "abcdef">>, <<"STR_1", "Msg">>,
    <<"[[STR_1]]", "\"hello\"">>, <<"[[STR_2]]", "'VAR_1'">>,
    <<"[[CMT_1]]", " secret note">> }

HasDistinctKeys(m) == \A i, j \in 1..Len(m) : m[i][1] = m[j][1] => i = j

RestoreMappings == { m \in SeqsUpTo(RestoreEntries, MaxEntries) : HasDistinctKeys(m) }

InitRestore ==
  /\ \E v \in {"tag", "structural"} : InitEngine(v)
  /\ pc = "sanitized"
  /\ tree = << >>
  /\ langId = "typescript"
  /\ options = NoOptions
  /\ sanitized \in RestoreTexts
  /\ mapping \in RestoreMappings
  /\ restored = ""
  /\ calls = [c \in Calls |-> IdleCall]
  /\ callerMap = NoCallerMap

NextRestore ==
  \/ RestoreWithMapCall
  \/ RestoreCall
  \/ RestoreWithMapStructuralCall
  \/ RestoreStructuralCall

SpecRestore == InitRestore /\ [][NextRestore]_vars

\* ---------------------------------------------------------------------------
\* Vocabulary of the properties
\* ---------------------------------------------------------------------------
\* Offset of the first Separator at or after i, -1 if none
RECURSIVE IndexOfSeparator(_, _)
IndexOfSeparator(s, i) ==
  IF i >= Len(s) THEN -1
  ELSE IF CharAt(s, i) = Separator THEN i
  ELSE IndexOfSeparator(s, i + 1)

\* The lines of a text ("" has none)
RECURSIVE LinesOf(_)
LinesOf(s) ==
  IF s = "" THEN << >>
  ELSE LET i == IndexOfSeparator(s, 0)
       IN  IF i < 0 THEN << s >>
           ELSE << SubSeq(s, 1, i) >> \o LinesOf(SubSeq(s, i + 2, Len(s)))

\* The texts of the identifier-class nodes of a tree, template substitutions included
IdentifierTexts(nodes) ==
  { nodes[i].text : i \in { j \in 1..Len(nodes) : nodes[j].type \in IdentTypes } }
    \cup UNION { { nodes[i].inner[k][2] : k \in 1..Len(nodes[i].inner) } :
                   i \in 1..Len(nodes) }

\* The reserved set the options ask for
ClaimedReservedSet(opts) ==
  IF opts.whitelistMode = "overwrite" THEN opts.whitelist
  ELSE RESERVED_NAMES \cup opts.whitelist

\* The category options let the capture name through
CategoryEnabled(captureName, opts) ==
  CASE captureName = "def.var" -> opts.maskVars
    [] captureName = "def.func" -> opts.maskFuncs
    [] captureName \in {"def.class", "def.type"} -> opts.maskClasses
    [] OTHER -> FALSE

\* The texts of the qualifying definition occurrences of a tree
QualifyingNames(nodes, opts) ==
  { nodes[i].text : i \in { j \in 1..Len(nodes) :
      /\ nodes[j].type \in IdentTypes
      /\ CategoryEnabled(DefCaptureName(nodes[j].site), opts)
      /\ Len(nodes[j].text) >= 2
      /\ ~StartsWith(nodes[j].text, "_")
      /\ nodes[j].text \notin ClaimedReservedSet(opts) } }

OnlyMaskableIdentifiers(nodes, opts) ==
  /\ nodes # << >>
  /\ \A i \in 1..Len(nodes) :
       nodes[i].type \in IdentTypes /\ nodes[i].text \in QualifyingNames(nodes, opts)

IsIdentifierKey(k) == ~StartsWith(k, "[[")

IsCommentKey(k) == StartsWith(k, "[[CMT_")

IsStringKey(k) == StartsWith(k, "[[STR_")

\* ---------------------------------------------------------------------------
\* C1  Round trip in tag/regex mode: for a source of maskable identifiers only,
\* sanitized with maskStrings and removeComments off, restoring the sanitized
\* text with the returned mapping gives back the source, whatever the prefix.
\* Fails: an identifier masked as STR_n is passed over by the identifier step.
\* ---------------------------------------------------------------------------
C1_RoundTripTag ==
  (/\ pc = "restored"
   /\ ~options.maskStrings
   /\ ~options.removeComments
   /\ OnlyMaskableIdentifiers(tree, options))
    => restored = CodeOf(tree)

\* ---------------------------------------------------------------------------
\* C2  Round trip in structural mode: for every parseable source, restoring
\* the sanitized text with the returned mapping gives back the source.
\* Fails: an identifier of the source that reads like a generated name.
\* ---------------------------------------------------------------------------
C2_RoundTripStructural == pc = "restored" => restored = CodeOf(tree)

\* ---------------------------------------------------------------------------
\* C3  Bijection: the returned mapping is injective both ways under every
\* combination of options.
\* ---------------------------------------------------------------------------
\* The claim as stated: no two keys carry the same original
C3_Bijection ==
  pc # "idle" =>
    \A i, j \in 1..Len(mapping) :
      (mapping[i][1] = mapping[j][1] \/ mapping[i][2] = mapping[j][2]) => i = j

\* C3 as amended: the keys are distinct, and no two identifier or string keys
\* carry the same original; comment entries may repeat a content.  The forward
\* table is injective both ways.
C3_BijectionExceptComments ==
  pc # "idle" =>
    /\ \A i, j \in 1..Len(mapping) : mapping[i][1] = mapping[j][1] => i = j
    /\ \A i, j \in 1..Len(mapping) :
         (/\ ~IsCommentKey(mapping[i][1])
          /\ ~IsCommentKey(mapping[j][1])
          /\ mapping[i][2] = mapping[j][2]) => i = j
    /\ \A i, j \in 1..Len(mapForward) :
         (mapForward[i][1] = mapForward[j][1] \/ mapForward[i][2] = mapForward[j][2])
           => i = j

\* Two string literals of the same text were masked and share one entry
C3_Witness ==
  /\ pc = "sanitized"
  /\ options.maskStrings
  /\ Len(tree) = 2
  /\ tree[1] = tree[2]
  /\ tree[1].type = "string"
  /\ Len(mapping) = 1
  /\ IsStringKey(mapping[1][1])

\* ---------------------------------------------------------------------------
\* C4  No generated masked name or tag equals the text of an identifier of the
\* input source.
\* Fails: names are numbered without looking at the source.
\* ---------------------------------------------------------------------------
C4_NoCollisionWithSource ==
  pc # "idle" => MapKeys(mapping) \cap IdentifierTexts(tree) = {}

\* ---------------------------------------------------------------------------
\* C5  Conservation of untouched tokens: an identifier node whose text is not
\* the text of a qualifying definition is left unchanged, and the characters
\* outside the replaced spans keep their order.
\* Fails: a masked template string whose substitution holds a masked name is
\* spliced with the offsets of the original text.
\* ---------------------------------------------------------------------------
\* Node i is captured by the replacement pass as a whole and rewritten
ReplacedAsLiteral(n, opts) ==
  \/ n.type = "comment" /\ opts.removeComments
  \/ /\ n.type \in {"string", "template_string"}
     /\ opts.maskStrings
     /\ n.site \notin {"import_statement", "export_statement"}

\* Line `out` conserves what the replacement pass leaves alone in node n
Conserved(n, out, names, opts) ==
  IF ReplacedAsLiteral(n, opts) THEN TRUE
  ELSE IF n.type \in IdentTypes THEN (n.text \notin names => out = n.text)
  ELSE IF n.inner = << >> THEN out = n.text
  ELSE LET off == n.inner[1][1]
           name == n.inner[1][2]
       IN  /\ StartsWith(out, SubSeq(n.text, 1, off))
           /\ EndsWith(out, SubSeq(n.text, off + Len(name) + 1, Len(n.text)))
           /\ (name \notin names => out = n.text)

C5_Conservation ==
  pc = "sanitized" =>
    LET out == LinesOf(sanitized) IN
    /\ Len(out) = Len(tree)
    /\ \A i \in 1..Len(tree) :
         Conserved(tree[i], out[i], QualifyingNames(tree, options), options)

\* ---------------------------------------------------------------------------
\* C6  An identifier occurrence that refers to an imported symbol or to a
\* member of an external library object is identical in input and output.
\* Fails: occurrences are replaced by text identity with the defined names.
\* ---------------------------------------------------------------------------
ExternalSites == {"import_specifier", "member_expression"}

C6_ExternalUntouched ==
  pc = "sanitized" =>
    LET out == LinesOf(sanitized) IN
    \A i \in 1..Len(tree) :
      tree[i].site \in ExternalSites => (Len(out) = Len(tree) /\ out[i] = tree[i].text)

\* ---------------------------------------------------------------------------
\* C7  Reserved-name exclusion: no name of the active reserved set appears in
\* the returned mapping, neither as a key nor as the original of an identifier
\* entry, for every combination of the category options.
\* ---------------------------------------------------------------------------
\* The claim as stated
C7_ReservedExclusion ==
  pc # "idle" =>
    \A i \in 1..Len(mapping) :
      /\ mapping[i][1] \notin ClaimedReservedSet(options)
      /\ IsIdentifierKey(mapping[i][1]) => mapping[i][2] \notin ClaimedReservedSet(options)

\* C7 as amended: no name of the active reserved set is the original of an
\* identifier entry of the returned mapping (a generated key may read like a
\* whitelisted word).
C7_ReservedNeverMasked ==
  pc # "idle" =>
    \A i \in 1..Len(mapping) :
      IsIdentifierKey(mapping[i][1]) => mapping[i][2] \notin ClaimedReservedSet(options)

\* In overwrite mode a whitelisted name and a default reserved name are both
\* defined with their category on: only the default name is masked
C7_Witness ==
  /\ pc = "sanitized"
  /\ options.whitelistMode = "overwrite"
  /\ options.maskVars
  /\ Len(tree) = 2
  /\ tree[1].site = "variable_declarator"
  /\ tree[1].text \in options.whitelist
  /\ tree[2].site = "variable_declarator"
  /\ tree[2].text \in RESERVED_NAMES
  /\ Len(mapping) = 1
  /\ mapping[1][2] = tree[2].text

\* ---------------------------------------------------------------------------
\* Placeholder grammar
\* ---------------------------------------------------------------------------
IsDigits(s) == s # "" /\ \A i \in 1..Len(s) : SubSeq(s, i, i) \in DigitChars

\* ^[A-Z][A-Z_]*_\d+$
IsIdentifierTag(s) ==
  \E k \in 2..(Len(s) - 1) :
    /\ SubSeq(s, 1, 1) \in UpperChars
    /\ \A i \in 1..(k - 1) : SubSeq(s, i, i) \in UpperChars \cup {"_"}
    /\ SubSeq(s, k, k) = "_"
    /\ IsDigits(SubSeq(s, k + 1, Len(s)))

\* ^\[\[(STR|CMT)_\d+\]\]$
IsLiteralTag(s) ==
  \E kind \in {"[[STR_", "[[CMT_"} :
    /\ StartsWith(s, kind)
    /\ EndsWith(s, "]]")
    /\ IsDigits(SubSeq(s, Len(kind) + 1, Len(s) - 2))

\* A line without the quotes or comment delimiters around it
CoreOf(line) ==
  IF StartsWith(line, "//") THEN SubSeq(line, 3, Len(line))
  ELSE IF StartsWith(line, "/*") /\ EndsWith(line, "*/") /\ Len(line) >= 4
  THEN SubSeq(line, 3, Len(line) - 2)
  ELSE IF Len(line) >= 2 /\ SubSeq(line, 1, 1) \in {"\"", "'"}
          /\ SubSeq(line, Len(line), Len(line)) \in {"\"", "'"}
  THEN SubSeq(line, 2, Len(line) - 1)
  ELSE line

\* The token is masked-looking and the map used by the restoration has no
\* entry for it (in the structural variant: nor for the identifier in a tag)
UnknownMaskedToken(tok, used) ==
  /\ tok \notin MapKeys(used)
  /\ \/ IsIdentifierTag(tok)
     \/ IsLiteralTag(tok)
          /\ (variant = "structural" => SubSeq(tok, 3, Len(tok) - 2) \notin MapKeys(used))

C9_IdentifierKeysRestored ==
  (pc = "restored" /\ variant = "tag") =>
    LET inp == LinesOf(sanitized)
        out == LinesOf(restored)
    IN  \A i \in 1..Len(inp) :
          (MapHas(mapBackward, inp[i]) /\ IsIdentifierKey(inp[i]))
            => (Len(out) = Len(inp) /\ out[i] = MapGet(mapBackward, inp[i]))

\* ---------------------------------------------------------------------------
\* C10  Tag-mode quote robustness: each occurrence of a [[STR_n]] key is
\* replaced by the stored literal without its first and last character, and
\* the characters around the tag are kept.
\* ---------------------------------------------------------------------------
\* The stored literal without the quotes around it
InnerContent(literal) == SubSeq(literal, 2, Len(literal) - 1)

\* No key of the map occurs in the text
FreeOfKeys(text, used) == \A k \in MapKeys(used) : ~Includes(text, k)

\* Line `before` holds the string tag `key` at offset a; `after` is the line
\* with the tag replaced by the content of the literal stored for it
TagReplacedAt(before, after, a, key, used) ==
  after = SubSeq(before, 1, a) \o InnerContent(MapGet(used, key))
            \o SubSeq(before, a + Len(key) + 1, Len(before))

C10_QuoteRobustness ==
  (pc = "restored" /\ variant = "tag") =>
    LET inp == LinesOf(sanitized)
        step == LinesOf(RestoreStrings(sanitized, mapBackward))
        out == LinesOf(restored)
    IN  \A i \in 1..Len(inp) :
          \A key \in { k \in MapKeys(mapBackward) : IsStringKey(k) } :
            \A a \in 0..(Len(inp[i]) - Len(key)) :
              SubSeq(inp[i], a + 1, a + Len(key)) = key =>
                /\ Len(step) = Len(inp)
                /\ TagReplacedAt(inp[i], step[i], a, key, mapBackward)
                /\ FreeOfKeys(InnerContent(MapGet(mapBackward, key)), mapBackward)
                     => (Len(out) = Len(inp)
                         /\ TagReplacedAt(inp[i], out[i], a, key, mapBackward))

\* The tag between single quotes restores to the content between single quotes
C10_Witness ==
  /\ pc = "restored"
  /\ variant = "tag"
  /\ sanitized = "'[[STR_1]]'"
  /\ MapHas(mapBackward, "[[STR_1]]")
  /\ MapGet(mapBackward, "[[STR_1]]") = "\"hello\""
  /\ restored = "'hello'"

\* ---------------------------------------------------------------------------
\* Documents of comments, and the example of the documentation
\* ---------------------------------------------------------------------------
\* The comments documents are built from: line, block and doc-block comments,
\* with and without content
CommentNodes ==
  { CommentNode("// secret note"), CommentNode("//"),
    CommentNode("/* a */"), CommentNode("/**/"),
    CommentNode("/** d */"), CommentNode("/***/"),
    IdentNode("identifier", "abcdef", "variable_declarator") }

\* function add(a, b) { return a + b; } as its nodes; the text between two
\* nodes is the Separator
AddSource ==
  << OtherNode("function"),
     IdentNode("identifier", "add", "function_declaration"),
     OtherNode("("),
     IdentNode("identifier", "a", "required_parameter"),
     OtherNode(","),
     IdentNode("identifier", "b", "required_parameter"),
     OtherNode(") { return"),
     IdentNode("identifier", "a", "binary_expression"),
     OtherNode("+"),
     IdentNode("identifier", "b", "binary_expression"),
     OtherNode("; }") >>

ExampleSources == SeqsUpTo(CommentNodes, MaxNodes) \cup { AddSource }

ExampleOptionSets ==
  { [NoOptions EXCEPT !.maskVars = m, !.maskFuncs = m, !.maskClasses = m,
                      !.maskStrings = ms, !.removeComments = rc] :
      m \in BOOLEAN, ms \in BOOLEAN, rc \in BOOLEAN }

\* await sanitizer.sanitize(text, langId, options) on one of these documents
SanitizeExampleCall ==
  /\ variant = "tag"
  /\ pc = "idle"
  /\ \E nodes \in ExampleSources, lang \in LangIds, opts \in ExampleOptionSets :
       ApplySanitize(Sanitize(nodes, lang, opts), nodes, lang, opts)

NextExamples == SanitizeExampleCall \/ RestoreWithMapCall \/ RestoreCall

SpecExamples == Init /\ [][NextExamples]_vars

\* ---------------------------------------------------------------------------
\* C11  Comment style preservation: with removeComments on, every comment is
\* rewritten to its own delimiters around a [[CMT_n]] tag, and restoring the
\* sanitized text with the returned mapping reproduces every comment exactly,
\* empty comments included.
\* Fails: the empty block comment is taken for a doc block.
\* ---------------------------------------------------------------------------
\* The opening and closing delimiters of a comment
OpeningOf(comment) ==
  IF StartsWith(comment, "//") THEN "//"
  ELSE IF StartsWith(comment, "/**") /\ Len(comment) >= 5 THEN "/**"
  ELSE "/*"

ClosingOf(comment) == IF StartsWith(comment, "//") THEN "" ELSE "*/"

\* The line is the delimiters of the comment around one comment tag
IsTaggedComment(line, comment) ==
  /\ StartsWith(line, OpeningOf(comment))
  /\ EndsWith(line, ClosingOf(comment))
  /\ Len(line) >= Len(OpeningOf(comment)) + Len(ClosingOf(comment))
  /\ LET tag == SubSeq(line, Len(OpeningOf(comment)) + 1,
                       Len(line) - Len(ClosingOf(comment)))
     IN  IsLiteralTag(tag) /\ IsCommentKey(tag)

C11_CommentStylePreserved ==
  (pc = "restored" /\ options.removeComments) =>
    LET masked == LinesOf(sanitized)
        out == LinesOf(restored)
    IN  \A i \in 1..Len(tree) :
          tree[i].type = "comment" =>
            /\ Len(masked) = Len(tree)
            /\ IsTaggedComment(masked[i], tree[i].text)
            /\ Len(out) = Len(tree)
            /\ out[i] = tree[i].text

\* ---------------------------------------------------------------------------
\* C12  The example of the documentation: function add(a, b) { return a + b; }
\* with all mask options on.
\* ---------------------------------------------------------------------------
AllMaskOptionsOn ==
  /\ options.maskVars /\ options.maskFuncs /\ options.maskClasses
  /\ options.maskStrings /\ options.removeComments

\* The claim as stated: the parameters are masked as VAR_1 and VAR_2
C12_AddExampleAsDocumented ==
  (pc = "restored" /\ tree = AddSource /\ AllMaskOptionsOn) =>
    /\ sanitized = JoinLines(<< "ACTION_1", "(", "VAR_1", ",", "VAR_2", ") { return",
                                "VAR_1", "+", "VAR_2", "; }" >>)
    /\ MapKeys(mapping) = {"ACTION_1", "VAR_1", "VAR_2"}
    /\ MapGet(mapping, "ACTION_1") = "add"
    /\ MapGet(mapping, "VAR_1") = "a"
    /\ MapGet(mapping, "VAR_2") = "b"
    /\ restored = CodeOf(tree)

\* C12 as amended: the names of one character do not qualify, the function name
\* alone is masked, and restoring gives back the input.
C12_AddExample ==
  (pc = "restored" /\ tree = AddSource /\ AllMaskOptionsOn) =>
    /\ sanitized = JoinLines(<< "function", "ACTION_1", "(", "a", ",", "b", ") { return",
                                "a", "+", "b", "; }" >>)
    /\ mapping = << <<"ACTION_1", "add">> >>
    /\ restored = CodeOf(tree)

\* The example was sanitized with every option on and restored
C12_Witness ==
  /\ pc = "restored"
  /\ tree = AddSource
  /\ AllMaskOptionsOn
  /\ MapHas(mapping, "ACTION_1")

\* ---------------------------------------------------------------------------
\* sanitize as the steps of an async call on a shared engine
\* ---------------------------------------------------------------------------
\* Mutant of ResetTables: the tables of the earlier call are kept
ResetTablesKeeping(t) == t

\* this.mapForward.clear(); this.mapBackward.clear(); this.typeCounters = {}
ResetTables(t) == EmptyTables

\* The key of the definition query of a language
QueryKey(languageId) ==
  IF Includes(languageId, "react") \/ languageId = "javascript" THEN "typescript"
  ELSE languageId

\* The languages QUERIES has a definition query for
QueryLanguages ==
  {"python", "typescript", "typescriptreact", "javascript", "javascriptreact"}

\* Mutant of FailOpen: the entries collected before the failure are returned
FailOpenWithEntries(code, t) == [sanitized |-> code, mapping |-> t.bwd, t |-> t]

\* return { sanitized: code, mapping: {} }, the tables left as they are
FailOpen(code, t) == [sanitized |-> code, mapping |-> EmptyMap, t |-> t]

\* The reserved set and the node types of the replacement query, by variant
ReservedOf(v, opts) == IF v = "tag" THEN ActiveReserved(opts) ELSE RESERVED_NAMES

ReplaceTypesOf(v, languageId, opts) ==
  IF v = "tag" THEN ReplaceQueryTypes(languageId, opts) ELSE IdentTypes

\* sanitize from the resumption after `await Language.load(wasmPath)` to its
\* return, on the tables t the engine holds at that moment.  failure names what
\* throws inside the try block: "load" (Language.load), "defQuery" or
\* "replaceQuery" (new Query), "" for nothing.
SanitizeAfterLoad(v, t, nodes, languageId, opts, failure) ==
  LET code == CodeOf(nodes)
      hasQuery == QueryKey(languageId) \in QueryLanguages
  IN  IF failure = "load" THEN FailOpen(code, t)
      ELSE IF hasQuery /\ failure = "defQuery" THEN FailOpen(code, t)
      ELSE
        LET t1 == IF hasQuery
                  THEN CollectDefinitions(t, DefCaptures(nodes, 1), opts,
                                          ReservedOf(v, opts))
                  ELSE t
        IN  IF failure = "replaceQuery" THEN FailOpen(code, t1)
            ELSE
              LET caps == SortDesc(ReplaceCaptures(nodes, 1,
                                     ReplaceTypesOf(v, languageId, opts)))
                  st == ReplaceLoop([text |-> code, t |-> t1], caps)
              IN  [sanitized |-> st.text, mapping |-> st.t.bwd, t |-> st.t]

\* The tables of the engine as one record
EngineTables == [fwd |-> mapForward, bwd |-> mapBackward, cnt |-> typeCounters]

SetEngineTables(t) ==
  /\ mapForward' = t.fwd
  /\ mapBackward' = t.bwd
  /\ typeCounters' = t.cnt

\* The call settles with a result
Resolved(call, r) ==
  [call EXCEPT !.pc = "done", !.outcome = "resolved",
               !.sanitized = r.sanitized, !.mapping = r.mapping]

\* The call settles with an error
Rejected(call, failure, error) ==
  [call EXCEPT !.pc = "done", !.outcome = "rejected", !.failure = failure,
               !.error = error]

\* sanitize from the reset of the tables to `await Language.load(wasmPath)`,
\* or to its return for a language without grammar
ResetAndLoad(c, call) ==
  /\ SetEngineTables(ResetTables(EngineTables))
  /\ IF _getWasmFile(call.langId) = ""
     THEN calls' = [calls EXCEPT ![c] =
                      Resolved(call, FailOpen(CodeOf(call.tree), EmptyTables))]
     ELSE calls' = [calls EXCEPT ![c] = [call EXCEPT !.pc = "load"]]

\* sanitizer.sanitize(code, langId, options) is called: the call runs to its
\* first await
StartSanitize(c, sources, languages, optionSets) ==
  /\ calls[c].pc = "idle"
  /\ \E nodes \in sources, lang \in languages, opts \in optionSets :
       LET call == [IdleCall EXCEPT !.op = "sanitize", !.tree = nodes,
                                    !.code = CodeOf(nodes), !.langId = lang,
                                    !.options = opts]
       IN  IF parser = "null"
           THEN /\ calls' = [calls EXCEPT ![c] = [call EXCEPT !.pc = "init"]]
                /\ UNCHANGED <<parser, mapForward, mapBackward, typeCounters>>
           ELSE /\ ResetAndLoad(c, call)
                /\ UNCHANGED parser
  /\ UNCHANGED <<variant, parserLanguage, pc, tree, langId, options, sanitized,
                 mapping, restored, callerMap>>

\* `await this.init()` settles: the parser is created, or init throws and the
\* call is rejected with its error
InitDone(c) ==
  /\ calls[c].pc = "init"
  /\ calls[c].op = "sanitize"
  /\ \E ok \in BOOLEAN :
       IF ok
       THEN /\ parser' = "ready"
            /\ ResetAndLoad(c, calls[c])
       ELSE /\ calls' = [calls EXCEPT ![c] =
                           Rejected(calls[c], "init", "Tree-sitter init failed")]
            /\ UNCHANGED <<parser, mapForward, mapBackward, typeCounters>>
  /\ UNCHANGED <<variant, parserLanguage, pc, tree, langId, options, sanitized,
                 mapping, restored, callerMap>>

\* `await Language.load(wasmPath)` settles and the call runs to its return
LoadDone(c) ==
  /\ calls[c].pc = "load"
  /\ \E failure \in {"", "load", "defQuery", "replaceQuery"} :
       LET call == calls[c]
           r == SanitizeAfterLoad(variant, EngineTables, call.tree, call.langId,
                                  call.options, failure)
       IN  /\ SetEngineTables(r.t)
           /\ parserLanguage' = IF failure = "load" THEN parserLanguage
                                ELSE _getWasmFile(call.langId)
           /\ calls' = [calls EXCEPT ![c] =
                          Resolved([call EXCEPT
                                      !.failure = failure,
                                      !.grammar = IF failure = "load" THEN ""
                                                  ELSE _getWasmFile(call.langId)], r)]
  /\ UNCHANGED <<variant, parser, pc, tree, langId, options, sanitized, mapping, restored,
                 callerMap>>

\* The caller takes the result of the call: the text and the mapping of a
\* sanitize call, the text of a restoration
Return(c) ==
  /\ calls[c].pc = "done"
  /\ calls' = [calls EXCEPT ![c] = IdleCall]
  /\ IF calls[c].outcome = "resolved" /\ calls[c].op = "sanitize"
     THEN /\ sanitized' = calls[c].sanitized
          /\ mapping' = calls[c].mapping
          /\ UNCHANGED restored
     ELSE IF calls[c].outcome = "resolved"
     THEN /\ restored' = calls[c].restored
          /\ UNCHANGED <<sanitized, mapping>>
     ELSE UNCHANGED <<sanitized, mapping, restored>>
  /\ UNCHANGED <<variant, parser, parserLanguage, mapForward, mapBackward,
                 typeCounters, pc, tree, langId, options, callerMap>>

\* ---------------------------------------------------------------------------
\* JSON.parse, for the texts a mapping is written in: an object whose members
\* are strings, a string, an integer, true, false or null, with blanks between
\* the tokens and the escapes \" \\ \/ \n \t inside a string
\* ---------------------------------------------------------------------------
JsonFailure == [ok |-> FALSE, value |-> "", next |-> 0]

RECURSIVE SkipBlanks(_, _)
SkipBlanks(s, i) == IF CharAt(s, i) \in {" ", "\n", "\t"} THEN SkipBlanks(s, i + 1) ELSE i

\* The character an escape sequence stands for, "" for none
Unescaped(esc) ==
  CASE esc = "\"" -> "\"" [] esc = "\\" -> "\\" [] esc = "/" -> "/"
    [] esc = "n" -> "\n" [] esc = "t" -> "\t" [] OTHER -> ""

\* The characters of a JSON string from offset i to its closing quote
RECURSIVE JsonStringBody(_, _)
JsonStringBody(s, i) ==
  LET ch == CharAt(s, i) IN
  IF i >= Len(s) \/ ch \in {"\n", "\t"} THEN JsonFailure
  ELSE IF ch = "\"" THEN [ok |-> TRUE, value |-> "", next |-> i + 1]
  ELSE IF ch = "\\"
  THEN LET u == Unescaped(CharAt(s, i + 1))
           rest == JsonStringBody(s, i + 2)
       IN  IF u = "" \/ ~rest.ok THEN JsonFailure
           ELSE [rest EXCEPT !.value = u \o @]
  ELSE LET rest == JsonStringBody(s, i + 1)
       IN  IF ~rest.ok THEN JsonFailure ELSE [rest EXCEPT !.value = ch \o @]

\* A JSON string at offset i
JsonString(s, i) == IF CharAt(s, i) = "\"" THEN JsonStringBody(s, i + 1) ELSE JsonFailure

\* The members of a JSON object from offset i (after the brace or a comma) as
\* the properties of the parsed object in order; a repeated key keeps its
\* place and takes the later value
RECURSIVE JsonMembers(_, _, _)
\* What follows a member: a comma and more members, or the closing brace
JsonAfterMember(s, after, props) ==
  IF CharAt(s, after) = "," THEN JsonMembers(s, after + 1, props)
  ELSE IF CharAt(s, after) = "}" THEN [ok |-> TRUE, value |-> props, next |-> after + 1]
  ELSE JsonFailure

\* The value of a member, a string
JsonMemberValue(s, key, val, props) ==
  IF ~val.ok THEN JsonFailure
  ELSE JsonAfterMember(s, SkipBlanks(s, val.next), MapSet(props, key.value, val.value))

\* The colon between the key and the value of a member
JsonMemberColon(s, key, colon, props) ==
  IF CharAt(s, colon) # ":" THEN JsonFailure
  ELSE JsonMemberValue(s, key, JsonString(s, SkipBlanks(s, colon + 1)), props)

\* The key of a member, a string
JsonMemberKey(s, key, props) ==
  IF ~key.ok THEN JsonFailure
  ELSE JsonMemberColon(s, key, SkipBlanks(s, key.next), props)

JsonMembers(s, i, props) == JsonMemberKey(s, JsonString(s, SkipBlanks(s, i)), props)

\* A JSON value at offset i: [ok, kind, value, next]
JsonValue(s, i) ==
  LET ch == CharAt(s, i) IN
  IF ch = "{"
  THEN IF CharAt(s, SkipBlanks(s, i + 1)) = "}"
       THEN [ok |-> TRUE, kind |-> "object", value |-> << >>,
             next |-> SkipBlanks(s, i + 1) + 1]
       ELSE LET m == JsonMembers(s, i + 1, << >>)
            IN  [ok |-> m.ok, kind |-> "object", value |-> m.value, next |-> m.next]
  ELSE IF ch = "\""
  THEN LET str == JsonString(s, i)
       IN  [ok |-> str.ok, kind |-> "string", value |-> str.value, next |-> str.next]
  ELSE IF Substring(s, i, i + 4) = "null"
  THEN [ok |-> TRUE, kind |-> "null", value |-> "", next |-> i + 4]
  ELSE IF Substring(s, i, i + 4) = "true"
  THEN [ok |-> TRUE, kind |-> "boolean", value |-> "", next |-> i + 4]
  ELSE IF Substring(s, i, i + 5) = "false"
  THEN [ok |-> TRUE, kind |-> "boolean", value |-> "", next |-> i + 5]
  ELSE IF DigitsRun(s, i) > 0 /\ (DigitsRun(s, i) = 1 \/ ch # "0")
  THEN [ok |-> TRUE, kind |-> "number", value |-> "", next |-> i + DigitsRun(s, i)]
  ELSE [ok |-> FALSE, kind |-> "", value |-> "", next |-> 0]

\* JSON.parse(text): [ok, kind, value]; ok is FALSE where JSON.parse throws
JsonParse(text) ==
  LET v == JsonValue(text, SkipBlanks(text, 0))
  IN  IF v.ok /\ SkipBlanks(text, v.next) = Len(text) THEN v
      ELSE [ok |-> FALSE, kind |-> "", value |-> "", next |-> 0]

\* Object.entries(parsed): [ok, entries]; ok is FALSE where it throws
ObjectEntries(parsed) ==
  IF parsed.kind = "null" THEN [ok |-> FALSE, entries |-> << >>]
  ELSE IF parsed.kind = "object" THEN [ok |-> TRUE, entries |-> parsed.value]
  ELSE IF parsed.kind = "string"
  THEN [ok |-> TRUE,
        entries |-> [k \in 1..Len(parsed.value) |->
                       <<NumToString(k - 1), SubSeq(parsed.value, k, k)>>]]
  ELSE [ok |-> TRUE, entries |-> << >>]

\* Mutant of NormalizeMapping: a text that cannot be parsed gives an empty map
NormalizeMappingLeniently(arg) ==
  IF arg.kind = "string"
  THEN LET parsed == JsonParse(arg.text)
           entries == IF parsed.ok THEN ObjectEntries(parsed)
                      ELSE [ok |-> TRUE, entries |-> << >>]
       IN  [ok |-> TRUE, map |-> IF entries.ok THEN entries.entries ELSE << >>]
  ELSE [ok |-> TRUE, map |-> arg.entries]

\* The normalisation of the mapping argument of restoreWithMap: [ok, map];
\* ok is FALSE where "Invalid JSON format for Map Table." is thrown
NormalizeMapping(arg) ==
  IF arg.kind = "string"
  THEN LET parsed == JsonParse(arg.text)
           entries == IF parsed.ok THEN ObjectEntries(parsed)
                      ELSE [ok |-> FALSE, entries |-> << >>]
       IN  [ok |-> entries.ok, map |-> entries.entries]
  ELSE [ok |-> TRUE, map |-> arg.entries]

\* ---------------------------------------------------------------------------
\* restoreWithMap and restore as calls on the shared engine
\* ---------------------------------------------------------------------------
\* restoreWithMap(code, arg, lang) from its call to its settlement.  initOk
\* and failure are what the environment does where the variant awaits it: the
\* structural variant awaits this.init() when it has no parser, and
\* Language.load in _applyRestoration; the tag variant awaits nothing.
RestoreWithMapBody(c, code, arg, lang, initOk, failure) ==
  LET call == [IdleCall EXCEPT !.op = "restoreWithMap", !.code = code,
                               !.arg = arg, !.langId = lang]
      norm == NormalizeMapping(arg)
  IN  IF variant = "structural" /\ parser = "null" /\ ~initOk
      THEN /\ calls' = [calls EXCEPT ![c] =
                          Rejected(call, "init", "Tree-sitter init failed")]
           /\ UNCHANGED <<parser, parserLanguage, mapBackward, callerMap>>
      ELSE /\ parser' = IF variant = "structural" THEN "ready" ELSE parser
           /\ IF ~norm.ok
              THEN /\ calls' = [calls EXCEPT ![c] =
                                  Rejected(call, "json", "Invalid JSON format for Map Table.")]
                   /\ UNCHANGED <<parserLanguage, mapBackward, callerMap>>
              ELSE /\ mapBackward' = norm.map
                   /\ callerMap' = AfterAssignment(arg)
                   /\ parserLanguage' = IF variant = "structural" /\ failure # "load"
                                        THEN RestorationWasmFile(lang)
                                        ELSE parserLanguage
                   /\ IF variant = "structural" /\ failure = "load"
                      THEN calls' = [calls EXCEPT ![c] =
                                       Rejected(call, "load", "Restoration failed")]
                      ELSE calls' = [calls EXCEPT ![c] =
                             [call EXCEPT
                                !.pc = "done", !.outcome = "resolved",
                                !.grammar = IF variant = "structural"
                                            THEN RestorationWasmFile(lang) ELSE "",
                                !.restored =
                                   IF variant = "tag"
                                   THEN restoreWithMap(code, norm.map, lang)
                                   ELSE restoreWithMapStructural(code, norm.map, lang)]]

\* The outcomes of the environment a call of the variant can meet
InitOutcomes == IF variant = "structural" /\ parser = "null" THEN BOOLEAN ELSE {TRUE}

LoadFailures == IF variant = "structural" THEN {"", "load"} ELSE {""}

\* await sanitizer.restoreWithMap(code, mapping, langId)
RestoreWithMapStep(c, codes, args) ==
  /\ calls[c].pc = "idle"
  /\ \E code \in codes, arg \in args, initOk \in InitOutcomes, failure \in LoadFailures :
       RestoreWithMapBody(c, code, arg, "typescript", initOk, failure)
  /\ UNCHANGED <<variant, mapForward, typeCounters, pc, tree, langId, options,
                 sanitized, mapping, restored>>

\* await sanitizer.restore(code, langId): restoreWithMap with this.mapBackward
RestoreStep(c, codes) ==
  /\ calls[c].pc = "idle"
  /\ \E code \in codes, initOk \in InitOutcomes, failure \in LoadFailures :
       RestoreWithMapBody(c, code, MappingArg("this", "", mapBackward), "typescript",
                          initOk, failure)
  /\ UNCHANGED <<variant, mapForward, typeCounters, pc, tree, langId, options,
                 sanitized, mapping, restored>>

\* ---------------------------------------------------------------------------
\* Calls one after the other on one engine, of either variant
\* ---------------------------------------------------------------------------
CallSources ==
  { << IdentNode("identifier", "abcdef", "variable_declarator") >>,
    << IdentNode("identifier", "Msg", "function_declaration"),
       IdentNode("identifier", "abcdef", "call_expression") >>,
    << StringNode("'hi'", "variable_declarator"),
       IdentNode("identifier", "xyz", "variable_declarator") >>,
    << CommentNode("// secret note"),
       IdentNode("type_identifier", "Abc", "class_declaration") >> }

CallLangIds == {"typescript", "plaintext"}

CallOptionSets ==
  { [NoOptions EXCEPT !.maskVars = TRUE, !.maskFuncs = TRUE, !.maskClasses = TRUE,
                      !.maskStrings = TRUE, !.removeComments = TRUE],
    [NoOptions EXCEPT !.maskVars = TRUE, !.maskFuncs = TRUE, !.maskClasses = TRUE] }

RestoreCodes == { "VAR_1", "\"[[STR_1]]\"" }

\* Texts that are not JSON
InvalidJsonTexts ==
  { "", "VAR_1=abcdef", "{VAR_1:\"abcdef\"}", "{\"VAR_1\":\"abcdef\"",
    "{\"VAR_1\":\"abcdef\",}", "{'VAR_1':'abcdef'}" }

\* Texts that are JSON
ValidJsonTexts ==
  { "{\"VAR_1\":\"abcdef\"}", "{ \"[[STR_1]]\" : \"\\\"hello\\\"\" }", "{}", "null", "7" }

MappingArgs ==
  { MappingArg("string", text, << >>) : text \in InvalidJsonTexts \cup ValidJsonTexts }
    \cup { MappingArg(kind, "", entries) :
             kind \in {"object", "map"},
             entries \in { << <<"VAR_1", "abcdef">> >>,
                           << <<"[[STR_1]]", "\"hello\"">>, <<"STALE_9", "stale">> >> } }

\* The one call id of a caller that awaits each call before the next
SequentialCalls == {1}

InitCalls == (\E v \in {"tag", "structural"} : InitEngine(v)) /\ InitCaller

NextCalls ==
  \E c \in SequentialCalls :
    \/ StartSanitize(c, CallSources, CallLangIds, CallOptionSets)
    \/ InitDone(c)
    \/ LoadDone(c)
    \/ RestoreWithMapStep(c, RestoreCodes, MappingArgs)
    \/ RestoreStep(c, RestoreCodes)
    \/ Return(c)

SpecCalls == InitCalls /\ [][NextCalls]_vars

\* The settled calls of an operation
SettledCalls(op) == { c \in Calls : calls[c].pc = "done" /\ calls[c].op = op }

\* ---------------------------------------------------------------------------
\* C13  restoreWithMap with a mapping argument that is a string and not valid
\* JSON is rejected with "Invalid JSON format for Map Table." and returns no
\* text, in both variants.  (A structural engine that cannot create its parser
\* rejects the call before it reads the mapping: no text is returned either.)
\* ---------------------------------------------------------------------------
C13_InvalidJsonRejected ==
  \A c \in SettledCalls("restoreWithMap") :
    (calls[c].arg.kind = "string" /\ calls[c].arg.text \in InvalidJsonTexts) =>
      /\ calls[c].outcome = "rejected"
      /\ calls[c].restored = ""
      /\ calls[c].failure # "init" => calls[c].error = "Invalid JSON format for Map Table."

\* A restoration with a text that is not JSON was rejected for its mapping
C13_Witness ==
  \E c \in SettledCalls("restoreWithMap") :
    /\ calls[c].arg = MappingArg("string", "{\"VAR_1\":\"abcdef\",}", << >>)
    /\ calls[c].code = "VAR_1"
    /\ calls[c].outcome = "rejected"
    /\ calls[c].failure = "json"

\* ---------------------------------------------------------------------------
\* C14  Fail-open: a sanitize call on an engine with a parser, for a language
\* without grammar, or whose grammar load throws, or whose definition query or
\* replacement query cannot be constructed, resolves with the unmodified input
\* and an empty mapping.
\* ---------------------------------------------------------------------------
C14_FailOpen ==
  \A c \in SettledCalls("sanitize") :
    (/\ calls[c].failure # "init"
     /\ \/ _getWasmFile(calls[c].langId) = ""
        \/ calls[c].failure \in {"load", "defQuery", "replaceQuery"}) =>
      /\ calls[c].outcome = "resolved"
      /\ calls[c].sanitized = calls[c].code
      /\ calls[c].mapping = EmptyMap

\* The replacement query failed after definitions had been collected
C14_Witness ==
  \E c \in SettledCalls("sanitize") :
    /\ calls[c].failure = "replaceQuery"
    /\ mapBackward # EmptyMap
    /\ calls[c].outcome = "resolved"
    /\ calls[c].code # ""

\* ---------------------------------------------------------------------------
\* C15  When the initialisation of the syntax-tree engine fails, sanitize
\* resolves with the unmodified input and an empty mapping.
\* Fails: this.init() is awaited outside the try block and its error rejects
\* the call.
\* ---------------------------------------------------------------------------
C15_InitFailureFailsOpen ==
  \A c \in SettledCalls("sanitize") :
    calls[c].failure = "init" =>
      /\ calls[c].outcome = "resolved"
      /\ calls[c].sanitized = calls[c].code
      /\ calls[c].mapping = EmptyMap

\* ---------------------------------------------------------------------------
\* C16  Fresh table per invocation: whatever calls were made on the engine
\* before, a sanitize call returns what a freshly constructed engine returns
\* for the same arguments, and leaves in the engine the tables a fresh engine
\* would hold.
\* ---------------------------------------------------------------------------
\* What an engine with empty tables returns for the arguments of the call
FreshResult(call) ==
  IF _getWasmFile(call.langId) = "" THEN FailOpen(call.code, EmptyTables)
  ELSE IF call.failure # "" \/ QueryKey(call.langId) \notin QueryLanguages
  THEN SanitizeAfterLoad(variant, EmptyTables, call.tree, call.langId,
                         call.options, call.failure)
  ELSE IF variant = "tag" THEN Sanitize(call.tree, call.langId, call.options)
  ELSE SanitizeStructural(call.tree, call.langId, call.options)

C16_FreshTablePerCall ==
  \A c \in SettledCalls("sanitize") :
    calls[c].outcome = "resolved" =>
      /\ calls[c].sanitized = FreshResult(calls[c]).sanitized
      /\ calls[c].mapping = FreshResult(calls[c]).mapping
      /\ EngineTables = FreshResult(calls[c]).t

\* The caller holds the mapping of an earlier sanitize call, and a later call
\* on the same engine has returned a mapping without its entries
C16_Witness ==
  \E c \in SettledCalls("sanitize") :
    /\ calls[c].outcome = "resolved"
    /\ mapping # EmptyMap
    /\ calls[c].mapping # EmptyMap
    /\ MapKeys(mapping) \cap MapKeys(calls[c].mapping) = {}

\* ---------------------------------------------------------------------------
\* Two sanitize calls in flight together on one engine of the tag variant
\* ---------------------------------------------------------------------------
OverlapLangIds == {"typescript"}

NextOverlap ==
  \E c \in Calls :
    \/ StartSanitize(c, CallSources, OverlapLangIds, CallOptionSets)
    \/ InitDone(c)
    \/ LoadDone(c)

SpecOverlap == Init /\ [][NextOverlap]_vars

\* ---------------------------------------------------------------------------
\* C17  Exclusive ownership under overlapping calls: each of two sanitize
\* calls in flight together on one engine returns the text and the mapping
\* produced from its own input alone.
\* Fails: the tables are reset before the await of the grammar load and not
\* after it, so the call that resumes second works on the entries and the
\* counters the first one left.
\* ---------------------------------------------------------------------------
C17_ExclusiveOwnership ==
  \A c \in SettledCalls("sanitize") :
    (calls[c].outcome = "resolved" /\ calls[c].failure = "") =>
      /\ calls[c].mapping = Sanitize(calls[c].tree, calls[c].langId, calls[c].options).mapping
      /\ calls[c].sanitized =
           Sanitize(calls[c].tree, calls[c].langId, calls[c].options).sanitized

\* ---------------------------------------------------------------------------
\* C18  Category options: with maskVars off no name whose qualifying definition
\* sites are all variable or parameter sites is the original of an identifier
\* entry, likewise maskFuncs for function and method names and maskClasses for
\* class, interface, type-alias and enum names; with the three off and string
\* and comment masking off, the text is unchanged and the mapping is empty.
\* ---------------------------------------------------------------------------
\* The definition sites of each category option
VariableSites == {"variable_declarator", "required_parameter", "optional_parameter"}

FunctionSites == {"function_declaration", "method_definition"}

ClassSites ==
  {"class_declaration", "interface_declaration", "type_alias_declaration",
   "enum_declaration"}

\* The names of the tree defined at some site of the set and at no definition
\* site outside it
DefinedOnlyAt(nodes, sites) ==
  { nodes[i].text : i \in { j \in 1..Len(nodes) :
      /\ nodes[j].type \in IdentTypes
      /\ nodes[j].site \in sites
      /\ \A k \in 1..Len(nodes) :
           (nodes[k].type \in IdentTypes /\ nodes[k].text = nodes[j].text
              /\ DefCaptureName(nodes[k].site) # "") => nodes[k].site \in sites } }

\* The originals of the identifier entries of a mapping
MaskedNames(m) == { m[i][2] : i \in { j \in 1..Len(m) : IsIdentifierKey(m[j][1]) } }

C18_CategoryOptions ==
  pc # "idle" =>
    /\ ~options.maskVars => MaskedNames(mapping) \cap DefinedOnlyAt(tree, VariableSites) = {}
    /\ ~options.maskFuncs => MaskedNames(mapping) \cap DefinedOnlyAt(tree, FunctionSites) = {}
    /\ ~options.maskClasses => MaskedNames(mapping) \cap DefinedOnlyAt(tree, ClassSites) = {}
    /\ (/\ ~options.maskVars /\ ~options.maskFuncs /\ ~options.maskClasses
        /\ ~options.maskStrings /\ ~options.removeComments)
         => (sanitized = CodeOf(tree) /\ mapping = EmptyMap)

\* A variable and a function are defined, maskVars is off and maskFuncs is on:
\* the function name alone is masked
C18_Witness ==
  /\ pc = "sanitized"
  /\ ~options.maskVars
  /\ options.maskFuncs
  /\ options.whitelist = {}
  /\ Len(tree) = 2
  /\ tree[1].site = "variable_declarator"
  /\ tree[1].text = "abcdef"
  /\ tree[2].site = "function_declaration"
  /\ MaskedNames(mapping) = {tree[2].text}

\* ---------------------------------------------------------------------------
\* C19  Placeholder grammar: every key of a returned mapping is an identifier
\* tag (^[A-Z][A-Z_]*_\d+$) or a literal tag (^\[\[(STR|CMT)_\d+\]\]$).
\* ---------------------------------------------------------------------------
C19_PlaceholderGrammar ==
  pc # "idle" =>
    \A i \in 1..Len(mapping) : IsIdentifierTag(mapping[i][1]) \/ IsLiteralTag(mapping[i][1])

\* A mapping with an identifier tag and a literal tag
C19_Witness ==
  /\ pc = "sanitized"
  /\ \E i, j \in 1..Len(mapping) :
       /\ IsIdentifierTag(mapping[i][1])
       /\ IsLiteralTag(mapping[j][1])

\* ---------------------------------------------------------------------------
\* Documents of one definition, for the classification of names
\* ---------------------------------------------------------------------------
ClassifyNames ==
  { "userList", "items", "dataArray", "userCollection", "address", "hasAccess",
    "isItems", "isName", "canEdit", "willTotal", "isvalid", "userName", "countText",
    "Message", "orderTotal", "nameCount", "pageIndex", "apiKey", "textId", "useId",
    "onClick", "onClickName", "handleKey", "handleSubmit", "handler", "useData",
    "user", "use", "props", "ButtonProps", "abcdef", "Abc" }

\* <<node type, definition site>> of the name node of a definition
ClassifySites ==
  { <<"identifier", "variable_declarator">>, <<"identifier", "function_declaration">>,
    <<"type_identifier", "class_declaration">>,
    <<"type_identifier", "interface_declaration">> }

ClassifySources ==
  { << IdentNode(ts[1], name, ts[2]) >> : name \in ClassifyNames, ts \in ClassifySites }

ClassifyOptions ==
  [NoOptions EXCEPT !.maskVars = TRUE, !.maskFuncs = TRUE, !.maskClasses = TRUE]

\* await sanitizer.sanitize(text, langId, options) on a document of one definition
SanitizeNameCall ==
  /\ variant = "tag"
  /\ pc = "idle"
  /\ \E nodes \in ClassifySources, lang \in LangIds :
       ApplySanitize(Sanitize(nodes, lang, ClassifyOptions), nodes, lang, ClassifyOptions)

NextClassify == SanitizeNameCall \/ RestoreWithMapCall

SpecClassify == Init /\ [][NextClassify]_vars

\* ---------------------------------------------------------------------------
\* C20  Name classification is first-match-wins over the rule order list-like,
\* boolean, string-like, numeric, id-like, handler, hook, props; the category
\* base prefix is used when no rule matches.
\* ---------------------------------------------------------------------------
\* The tags of the rules, in the order of the rules
RuleTags == << "LIST", "BOOL", "STR", "NUM", "ID", "HANDLER", "HOOK", "PROPS" >>

\* The predicate of rule i on the original spelling
RuleMatches(i, name) ==
  CASE i = 1 -> MatchesSuffix(name, {"List", "Array", "Items", "Collection", "s"})
                  /\ ~EndsWith(name, "ss")
    [] i = 2 -> MatchesPrefixUpper(name, {"is", "has", "can", "should", "did", "will"})
    [] i = 3 -> MatchesSuffix(name, {"Name", "Title", "Text", "String", "Str", "Label",
                                     "Message", "Msg"})
    [] i = 4 -> MatchesSuffix(name, {"Count", "Index", "Idx", "Num", "Size", "Length",
                                     "Amount", "Price", "Total"})
    [] i = 5 -> MatchesSuffix(name, {"Id", "Key", "Code", "Uuid"})
    [] i = 6 -> MatchesPrefixUpper(name, {"on", "handle"})
    [] i = 7 -> MatchesPrefixUpper(name, {"use"})
    [] i = 8 -> EndsWith(name, "Props") \/ name = "props"

\* The first rule that matches, 0 when none does
FirstRule(name) ==
  IF \E i \in 1..Len(RuleTags) : RuleMatches(i, name)
  THEN CHOOSE i \in 1..Len(RuleTags) :
         RuleMatches(i, name) /\ \A j \in 1..(i - 1) : ~RuleMatches(j, name)
  ELSE 0

\* The base prefix of the category of a definition site
CategoryBase(site) ==
  CASE site \in VariableSites -> "VAR"
    [] site \in FunctionSites -> "ACTION"
    [] site = "class_declaration" -> "CLASS"
    [] OTHER -> "TYPE"

\* The one entry of the mapping of a document of one definition
OnlyEntry(prefix, name) == << <<prefix \o "_1", name>> >>

\* The prefix of the one definition is the tag of the first rule that matches
\* its name, and the category base prefix when no rule matches
C20_FirstMatchWins ==
  (pc = "sanitized" /\ Len(tree) = 1) =>
    LET name == tree[1].text
        rule == FirstRule(name)
    IN  mapping = OnlyEntry(IF rule = 0 THEN CategoryBase(tree[1].site)
                            ELSE RuleTags[rule], name)

\* ---------------------------------------------------------------------------
\* C21  A name receives the HOOK prefix only if it starts with use followed by
\* a capitalized character; a name that starts with use followed by a
\* lower-case letter and matches no earlier rule keeps its category base
\* prefix.
\* ---------------------------------------------------------------------------
\* use followed by a lower-case letter
UseThenLower(name) ==
  StartsWith(name, "use") /\ Len(name) > 3 /\ CharAt(name, 3) \in LowerChars

C21_HookRequiresCapital ==
  (pc = "sanitized" /\ Len(tree) = 1 /\ Len(mapping) = 1) =>
    LET name == tree[1].text
        key == mapping[1][1]
    IN  /\ StartsWith(key, "HOOK_") => MatchesPrefixUpper(name, {"use"})
        /\ (UseThenLower(name) /\ \A i \in 1..6 : ~RuleMatches(i, name))
             => key = CategoryBase(tree[1].site) \o "_1"

\* ---------------------------------------------------------------------------
\* Documents whose definitions, strings and comments share prefixes
\* ---------------------------------------------------------------------------
CounterNodes ==
  { IdentNode("identifier", "abcdef", "variable_declarator"),
    IdentNode("identifier", "xyz", "variable_declarator"),
    IdentNode("identifier", "Msg", "function_declaration"),
    IdentNode("identifier", "userName", "variable_declarator"),
    StringNode("'hi'", "variable_declarator"),
    StringNode("'yo'", "variable_declarator"),
    CommentNode("//a"),
    OtherNode("=") }

CounterSources == SeqsUpTo(CounterNodes, MaxNodes)

CounterOptionSets ==
  { [NoOptions EXCEPT !.maskVars = TRUE, !.maskFuncs = TRUE, !.maskClasses = TRUE,
                      !.maskStrings = ms, !.removeComments = rc] :
      ms \in BOOLEAN, rc \in BOOLEAN }

\* await sanitizer.sanitize(text, langId, options) on such a document
SanitizeCounterCall ==
  /\ variant = "tag"
  /\ pc = "idle"
  /\ \E nodes \in CounterSources, opts \in CounterOptionSets :
       ApplySanitize(Sanitize(nodes, "typescript", opts), nodes, "typescript", opts)

NextCounters == SanitizeCounterCall \/ RestoreWithMapCall

SpecCounters == Init /\ [][NextCounters]_vars

\* ---------------------------------------------------------------------------
\* C22  One counter per prefix: in every returned mapping the keys of one
\* identifier prefix P are exactly P_1 .. P_k, the string tags are exactly
\* [[STR_1]] .. [[STR_m]] and the comment tags exactly [[CMT_1]] .. [[CMT_c]].
\* ---------------------------------------------------------------------------
\* Number of digits at the end of the first n characters of s
RECURSIVE DigitsBefore(_, _)
DigitsBefore(s, n) ==
  IF n > 0 /\ SubSeq(s, n, n) \in DigitChars THEN 1 + DigitsBefore(s, n - 1) ELSE 0

\* A key without its number: P_ for an identifier key, [[STR_ or [[CMT_ for a
\* literal tag
KeyStem(k) ==
  IF IsIdentifierKey(k) THEN SubSeq(k, 1, Len(k) - DigitsBefore(k, Len(k)))
  ELSE SubSeq(k, 1, Len(k) - 2 - DigitsBefore(k, Len(k) - 2))

\* The key of a stem and a number
KeyOf(stem, n) ==
  IF IsIdentifierKey(stem) THEN stem \o NumToString(n)
  ELSE stem \o NumToString(n) \o "]]"

KeysOfStem(m, stem) == { k \in MapKeys(m) : KeyStem(k) = stem }

C22_CounterPerPrefix ==
  pc # "idle" =>
    /\ Cardinality(MapKeys(mapping)) = Len(mapping)
    /\ \A k \in MapKeys(mapping) :
         KeysOfStem(mapping, KeyStem(k)) =
           { KeyOf(KeyStem(k), n) : n \in 1..Cardinality(KeysOfStem(mapping, KeyStem(k))) }

\* Two names of one prefix beside nothing else: VAR_1 and VAR_2
C22_Witness ==
  /\ pc = "sanitized"
  /\ MapKeys(mapping) = {"VAR_1", "VAR_2"}

\* ---------------------------------------------------------------------------
\* Documents with definitions of short names and of names behind an underscore
\* ---------------------------------------------------------------------------
QualifyNodes ==
  { IdentNode("identifier", "a", "variable_declarator"),
    IdentNode("identifier", "x", "function_declaration"),
    IdentNode("identifier", "_", "required_parameter"),
    IdentNode("identifier", "_tmp", "variable_declarator"),
    IdentNode("type_identifier", "_Abc", "class_declaration"),
    IdentNode("identifier", "ab", "variable_declarator"),
    CommentNode("//a") }

QualifySources == SeqsUpTo(QualifyNodes, MaxNodes)

\* await sanitizer.sanitize(text, langId, options) on such a document
SanitizeQualifyCall ==
  /\ variant = "tag"
  /\ pc = "idle"
  /\ \E nodes \in QualifySources, opts \in OptionSets :
       ApplySanitize(Sanitize(nodes, "typescript", opts), nodes, "typescript", opts)

NextQualify == SanitizeQualifyCall \/ RestoreWithMapCall

SpecQualify == Init /\ [][NextQualify]_vars

\* ---------------------------------------------------------------------------
\* C23  No identifier entry of a returned mapping has an original shorter than
\* two characters or one that starts with an underscore.
\* ---------------------------------------------------------------------------
C23_QualifiedOriginals ==
  pc # "idle" =>
    \A name \in MaskedNames(mapping) : Len(name) >= 2 /\ ~StartsWith(name, "_")

\* A name behind an underscore and a name of two characters are defined with
\* the options on: the second alone is masked
C23_Witness ==
  /\ pc = "sanitized"
  /\ options.maskVars
  /\ Len(tree) = 2
  /\ tree[1].text = "_tmp"
  /\ tree[2].text = "ab"
  /\ mapping = << <<"VAR_1", "ab">> >>

\* ---------------------------------------------------------------------------
\* C24  With maskStrings on, the module path of an import or export statement
\* is not rewritten and gets no entry; every other string literal is replaced
\* by a [[STR_n]] tag in double quotes, equal literal texts sharing one tag.
\* ---------------------------------------------------------------------------
StringTypes == {"string", "template_string"}

ModulePathSites == {"import_statement", "export_statement"}

\* The positions of the string literals of the tree that are no module path
MaskableStrings(nodes) ==
  { i \in 1..Len(nodes) :
      nodes[i].type \in StringTypes /\ nodes[i].site \notin ModulePathSites }

\* The tags of a mapping whose original is the text
StringTagsOf(m, text) == { k \in MapKeys(m) : IsStringKey(k) /\ MapGet(m, k) = text }

\* The masked name of a spelling in a mapping, the spelling itself when it has
\* none
MaskedSpelling(m, text) ==
  IF \E k \in MapKeys(m) : IsIdentifierKey(k) /\ MapGet(m, k) = text
  THEN CHOOSE k \in MapKeys(m) : IsIdentifierKey(k) /\ MapGet(m, k) = text
  ELSE text

\* The text that stands for node i once every string literal that is no
\* module path is its tag in double quotes and every masked spelling its
\* masked name
TextWithStringTags(nodes, m, i) ==
  IF i \in MaskableStrings(nodes)
  THEN "\"" \o (CHOOSE k \in StringTagsOf(m, nodes[i].text) : TRUE) \o "\""
  ELSE IF nodes[i].type \in IdentTypes THEN MaskedSpelling(m, nodes[i].text)
  ELSE nodes[i].text

C24_StringMasking ==
  (/\ pc # "idle"
   /\ options.maskStrings
   /\ ~options.removeComments) =>
    /\ \A i \in MaskableStrings(tree) :
         Cardinality(StringTagsOf(mapping, tree[i].text)) = 1
    /\ \A k \in MapKeys(mapping) :
         IsStringKey(k) => \E i \in MaskableStrings(tree) : tree[i].text = MapGet(mapping, k)
    /\ sanitized =
         CodeOf([i \in 1..Len(tree) |->
                   [text |-> TextWithStringTags(tree, mapping, i)]])

\* ---------------------------------------------------------------------------
\* C25  Definition collection completes before any replacement: every
\* identifier-class node whose text is a key of the final forward map is
\* replaced by that one masked name, occurrences before the first definition
\* site included.
\* ---------------------------------------------------------------------------
\* The text of a node with the spellings of its inner identifiers from
\* position k down replaced by their masked names
RECURSIVE WithInnerMasked(_, _, _, _)
WithInnerMasked(text, inner, k, m) ==
  IF k = 0 THEN text
  ELSE WithInnerMasked(
         Splice(text, inner[k][1], inner[k][1] + Len(inner[k][2]),
                MaskedSpelling(m, inner[k][2])),
         inner, k - 1, m)

\* The text that stands for node i once every identifier-class node with a
\* masked spelling is its masked name; a string literal that is masked as a
\* whole is its tag
TextWithMaskedNames(nodes, m, opts, i) ==
  IF opts.maskStrings /\ i \in MaskableStrings(nodes)
  THEN "\"" \o (CHOOSE k \in StringTagsOf(m, nodes[i].text) : TRUE) \o "\""
  ELSE IF nodes[i].type \in IdentTypes THEN MaskedSpelling(m, nodes[i].text)
  ELSE IF opts.maskStrings THEN nodes[i].text
  ELSE WithInnerMasked(nodes[i].text, nodes[i].inner, Len(nodes[i].inner), m)

\* The spellings with an identifier entry
MaskedSpellings(m) == { MapGet(m, k) : k \in { j \in MapKeys(m) : IsIdentifierKey(j) } }

CommentTagAt(nodes, i) ==
  "[[CMT_"
    \o NumToString(Cardinality({ j \in i..Len(nodes) : nodes[j].type = "comment" }))
    \o "]]"

\* The replacement of a comment: its delimiters around its tag
CommentReplacement(text, tag) ==
  IF StartsWith(text, "//") THEN "//" \o tag
  ELSE IF StartsWith(text, "/**") THEN "/**" \o tag \o "*/"
  ELSE IF StartsWith(text, "/*") THEN "/*" \o tag \o "*/"
  ELSE tag

\* The replacement of the span of node i, the text of the node when it is not
\* replaced
SpanReplacement(nodes, m, opts, i) ==
  IF opts.removeComments /\ nodes[i].type = "comment"
  THEN CommentReplacement(nodes[i].text, CommentTagAt(nodes, i))
  ELSE TextWithMaskedNames(nodes, m, opts, i)

C26_OffsetSafeSplicing ==
  pc # "idle" =>
    sanitized =
      CodeOf([i \in 1..Len(tree) |->
                [text |-> SpanReplacement(tree, mapping, options, i)]])

\* ---------------------------------------------------------------------------
\* C27  Tag-mode restoration is a simultaneous substitution: text inserted
\* for one mapping entry is never rewritten by another entry of the same
\* mapping, and the restored text does not depend on the order of the
\* entries.
\* ---------------------------------------------------------------------------
\* The orders the entries of a mapping can be iterated in
OrdersOf(m) ==
  { [i \in 1..Len(m) |-> m[q[i]]] :
      q \in { f \in [1..Len(m) -> 1..Len(m)] :
                \A i, j \in 1..Len(m) : f[i] = f[j] => i = j } }

\* Entry i is the only entry of the mapping that rewrites the line
OnlyEntryRewrites(line, m, lang, i) ==
  /\ restoreWithMap(line, << m[i] >>, lang) # line
  /\ \A j \in 1..Len(m) : j # i => restoreWithMap(line, << m[j] >>, lang) = line

C27_SimultaneousSubstitution ==
  (pc = "restored" /\ variant = "tag") =>
    /\ \A m \in OrdersOf(mapping) :
         restoreWithMap(sanitized, m, langId) = restoreWithMap(sanitized, mapping, langId)
    /\ \A k \in 1..Len(LinesOf(sanitized)), i \in 1..Len(mapping) :
         OnlyEntryRewrites(LinesOf(sanitized)[k], mapping, langId, i) =>
           restoreWithMap(LinesOf(sanitized)[k], mapping, langId) =
             restoreWithMap(LinesOf(sanitized)[k], << mapping[i] >>, langId)

\* ---------------------------------------------------------------------------
\* C28  A Map object passed as the mapping argument of restoreWithMap is never
\* mutated: it holds the entries it was passed with after restoreWithMap
\* returns and after every later sanitize, restoreWithMap and restore call.
\* ---------------------------------------------------------------------------
C28_CallerMapUntouched ==
  callerMap.held => CallerMapEntries = callerMap.passed

\* ---------------------------------------------------------------------------
\* restoreWithMap of the structural variant, step by step at its awaits, on an
\* engine whose parser exists
\* ---------------------------------------------------------------------------
\* restoreWithMap(code, arg, lang) is called: the mapping is normalised and
\* stored, and _applyRestoration runs to `await Language.load(wasmPath)`
StartRestore(c, codes, args, languages) ==
  /\ variant = "structural"
  /\ parser = "ready"
  /\ calls[c].pc = "idle"
  /\ \E code \in codes, arg \in args, lang \in languages :
       LET call == [IdleCall EXCEPT !.op = "restoreWithMap", !.code = code,
                                    !.arg = arg, !.langId = lang]
           norm == NormalizeMapping(arg)
       IN  IF ~norm.ok
           THEN /\ calls' = [calls EXCEPT ![c] =
                               Rejected(call, "json", "Invalid JSON format for Map Table.")]
                /\ UNCHANGED <<mapBackward, callerMap>>
           ELSE /\ mapBackward' = norm.map
                /\ callerMap' = AfterAssignment(arg)
                /\ calls' = [calls EXCEPT ![c] =
                               [call EXCEPT !.pc = "restoreLoad", !.mapping = norm.map]]
  /\ UNCHANGED <<variant, parser, parserLanguage, mapForward, typeCounters, pc, tree,
                 langId, options, sanitized, mapping, restored>>

\* `await Language.load(wasmPath)` settles in _applyRestoration: the grammar is
\* set on the shared parser and the call awaits the value of setLanguage
RestoreLoadDone(c) ==
  /\ calls[c].pc = "restoreLoad"
  /\ \E failure \in {"", "load"} :
       IF failure = "load"
       THEN /\ calls' = [calls EXCEPT ![c] =
                           Rejected(calls[c], "load", "Restoration failed")]
            /\ UNCHANGED parserLanguage
       ELSE /\ parserLanguage' = RestorationWasmFile(calls[c].langId)
            /\ calls' = [calls EXCEPT ![c] = [calls[c] EXCEPT !.pc = "setLanguage"]]
  /\ UNCHANGED <<variant, parser, mapForward, mapBackward, typeCounters, pc, tree,
                 langId, options, sanitized, mapping, restored, callerMap>>

\* `await this.parser.setLanguage(...)` settles: the text is parsed with the
\* grammar the shared parser holds now, and the call runs to its return
RestoreParse(c) ==
  /\ calls[c].pc = "setLanguage"
  /\ calls' = [calls EXCEPT ![c] =
                 [calls[c] EXCEPT
                    !.pc = "done", !.outcome = "resolved", !.grammar = parserLanguage,
                    !.restored = restoreWithMapStructural(calls[c].code, calls[c].mapping,
                                                          calls[c].langId)]]
  /\ UNCHANGED <<variant, parser, parserLanguage, mapForward, mapBackward, typeCounters,
                 pc, tree, langId, options, sanitized, mapping, restored, callerMap>>

\* ---------------------------------------------------------------------------
\* Calls for two languages in flight together on one structural engine
\* ---------------------------------------------------------------------------
GrammarLangIds == {"typescript", "python"}

GrammarSources == { << IdentNode("identifier", "abcdef", "variable_declarator") >> }

GrammarOptionSets ==
  { [NoOptions EXCEPT !.maskVars = TRUE, !.maskFuncs = TRUE, !.maskClasses = TRUE] }

GrammarArgs == { MappingArg("object", "", << <<"VAR_1", "abcdef">> >>) }

\* The engine after init() has created the parser
InitGrammar ==
  /\ variant = "structural"
  /\ parser = "ready"
  /\ parserLanguage = ""
  /\ mapForward = EmptyMap
  /\ mapBackward = EmptyMap
  /\ typeCounters = EmptyMap
  /\ InitCaller

NextGrammar ==
  \E c \in Calls :
    \/ StartSanitize(c, GrammarSources, GrammarLangIds, GrammarOptionSets)
    \/ LoadDone(c)
    \/ StartRestore(c, {"VAR_1"}, GrammarArgs, GrammarLangIds)
    \/ RestoreLoadDone(c)
    \/ RestoreParse(c)
    \/ Return(c)

SpecGrammar == InitGrammar /\ [][NextGrammar]_vars

\* ---------------------------------------------------------------------------
\* C29  Each call parses its text with the grammar selected for its own
\* languageId, also when a structural restoreWithMap call overlaps with a
\* call for another language on the same engine.
\* ---------------------------------------------------------------------------
\* The grammar a call selects for its languageId
OwnGrammar(call) ==
  IF call.op = "sanitize" THEN _getWasmFile(call.langId)
  ELSE RestorationWasmFile(call.langId)

C29_OwnGrammar ==
  \A c \in Calls : calls[c].grammar # "" => calls[c].grammar = OwnGrammar(calls[c])

\* ---------------------------------------------------------------------------
\* C30  When a sanitize call returns, also when it fails open with an empty
\* mapping, the backward table stored in the engine equals the mapping the
\* call returned (so that legacy restore, which reads the stored table, equals
\* restoreWithMap with that mapping).
\* ---------------------------------------------------------------------------
\* Call c settles with a result of sanitize in this step
SanitizeSettles(c) ==
  /\ calls[c].pc # "done"
  /\ calls'[c].pc = "done"
  /\ calls'[c].op = "sanitize"
  /\ calls'[c].outcome = "resolved"

C30_StoredTableIsReturnedMapping ==
  [][\A c \in Calls : SanitizeSettles(c) => mapBackward' = calls'[c].mapping]_vars
====
